---- MODULE Spec2Model ----
(***************************************************************************)
(* A model of django-graphene-filters: the predicate registry of a         *)
(* filter-set class (AdvancedFilterSet.get_filters and the helpers it      *)
(* calls), the schema-tree builder, the value-tree resolver and the        *)
(* boolean expression composer.                                            *)
(*                                                                         *)
(* Strings are sequences of atoms.  The atom "__" is LOOKUP_SEP; every     *)
(* other atom is a word, or a piece of a word, that contains no separator  *)
(* (the field name exact_m is the atoms "exact" and "_m"), so that         *)
(* splitting, joining, suffix tests, substring tests and substring         *)
(* replacement are computed on the atoms the way Python computes them on   *)
(* the characters.                                                         *)
(***************************************************************************)
EXTENDS Integers, Sequences, FiniteSets, TLC

\* django.db.models.constants.LOOKUP_SEP and django_filters' DEFAULT_LOOKUP_EXPR
LOOKUP_SEP == "__"
DEFAULT_LOOKUP_EXPR == "exact"

\* ------------------------------------------------------------------------
\* Strings
\* ------------------------------------------------------------------------

\* f"{a}{LOOKUP_SEP}{b}"
Join(a, b) == a \o <<LOOKUP_SEP>> \o b

\* str.endswith
EndsWith(s, suf) ==
    /\ Len(s) >= Len(suf)
    /\ SubSeq(s, Len(s) - Len(suf) + 1, Len(s)) = suf

\* s[i:].startswith(pat)
MatchAt(s, i, pat) ==
    /\ i + Len(pat) - 1 <= Len(s)
    /\ SubSeq(s, i, i + Len(pat) - 1) = pat

\* pat in s
Contains(s, pat) == \E i \in 1..(Len(s) + 1) : MatchAt(s, i, pat)

RECURSIVE ReplaceFrom(_, _, _, _, _)
\* str.replace(old, new, count) scanning from position i; count < 0 is "all"
ReplaceFrom(s, i, old, new, count) ==
    IF i > Len(s) \/ count = 0 THEN SubSeq(s, i, Len(s))
    ELSE IF Len(old) > 0 /\ MatchAt(s, i, old)
         THEN new \o ReplaceFrom(s, i + Len(old), old, new, count - 1)
         ELSE <<s[i]>> \o ReplaceFrom(s, i + 1, old, new, count)

\* s.replace(old, new)
ReplaceAll(s, old, new) == ReplaceFrom(s, 1, old, new, -1)

\* s.replace(old, new, 1)
ReplaceFirst(s, old, new) == ReplaceFrom(s, 1, old, new, 1)

\* positions of the separators of s
SepPositions(s) == {i \in 1..Len(s) : s[i] = LOOKUP_SEP}

\* s.split(LOOKUP_SEP)[-1]
LastSegment(s) ==
    IF SepPositions(s) = {} THEN s
    ELSE LET p == CHOOSE i \in SepPositions(s) : \A j \in SepPositions(s) : j <= i
         IN SubSeq(s, p + 1, Len(s))

RECURSIVE SplitFrom(_, _, _)
\* s.split(LOOKUP_SEP), scanning from position i with the segment cur open
SplitFrom(s, i, cur) ==
    IF i > Len(s) THEN <<cur>>
    ELSE IF s[i] = LOOKUP_SEP THEN <<cur>> \o SplitFrom(s, i + 1, <<>>)
    ELSE SplitFrom(s, i + 1, Append(cur, s[i]))

Split(s) == SplitFrom(s, 1, <<>>)

\* ------------------------------------------------------------------------
\* Ordered dictionaries: sequences of records with a unique .name
\* ------------------------------------------------------------------------
Keys(d) == {d[i].name : i \in 1..Len(d)}
Has(d, k) == \E i \in 1..Len(d) : d[i].name = k
Get(d, k) == d[CHOOSE i \in 1..Len(d) : d[i].name = k]

\* d[e.name] = e
Put(d, e) ==
    IF Has(d, e.name)
    THEN [i \in 1..Len(d) |-> IF d[i].name = e.name THEN e ELSE d[i]]
    ELSE Append(d, e)

RECURSIVE DictUpdate(_, _)
\* d.update(es)
DictUpdate(d, es) ==
    IF es = <<>> THEN d ELSE DictUpdate(Put(d, Head(es)), Tail(es))

\* OrderedDict(list of pairs)
DictFromList(es) == DictUpdate(<<>>, es)


\* ------------------------------------------------------------------------
\* Filter-set classes and their declaration
\* ------------------------------------------------------------------------

\* the filter-set classes of the program, all declared in the module APP
FilterSets == {"A", "B"}
APP == "app"

\* deepest call stack the model follows
MaxDepth == 7

\* calls of get_filters a thread makes from outside: alone, beside another
\* thread, and on classes declared in a cycle
MaxCalls == 2
MaxCallsMT == 1
MaxCallsCycle == 1

NoRef == [isStr |-> FALSE, cls |-> "", path |-> <<>>]
ClassRef(c) == [isStr |-> FALSE, cls |-> c, path |-> <<>>]
StrRef(p) == [isStr |-> TRUE, cls |-> "", path |-> p]

\* the forms of the filterset argument of a related filter: the class object,
\* an absolute import path, the name of a class of the declaring module, and
\* a path that names nothing
RefsTo(c) == {ClassRef(c), StrRef(<<APP, c>>), StrRef(<<c>>)}
BadRef == StrRef(<<APP, "Missing">>)

\* a related filter declared as the attribute "rel" of the class, with the
\* filterset argument it was constructed with
RelatedDecl(kind, lookups, filterset) ==
    [name |-> <<"rel">>, field_name |-> <<"rel">>, kind |-> kind, lookups |-> lookups,
     filterset |-> filterset]

\* the class a filterset argument names ("Missing" when it names none)
TargetOf(ref) == IF ref.isStr THEN ref.path[Len(ref.path)] ELSE ref.cls

\* Meta.fields of a class
MetaName == <<[name |-> <<"name">>, lookups |-> <<(<<"exact">>), (<<"icontains">>)>>]>>
MetaRel == <<[name |-> <<"rel">>, lookups |-> <<(<<"icontains">>)>>]>>
MetaSearch == <<[name |-> <<"name">>, lookups |-> <<(<<"exact">>), (<<"full_text_search">>)>>]>>
MetaUndefined == <<[name |-> <<"nosuch">>, lookups |-> <<(<<"exact">>)>>]>>

VARIABLES
    cfgRelated,       \* class -> the related filters it declares (related_filters)
    cfgMeta,          \* class -> Meta.fields as declared
    hasModel,         \* class -> Meta.model is set
    isPostgresql,     \* settings.IS_POSTGRESQL
    hasTrigram,       \* settings.HAS_TRIGRAM_EXTENSION
    fsRef,            \* class -> _filterset of each of its related filters
    metaCur,          \* class -> cls._meta.fields as it is now
    declHidden,       \* class -> cls.declared_filters is replaced by {}
    expandedFilters,  \* class -> _expanded_filters
    isExpanding,      \* class -> _is_expanding_filters
    threads,          \* the threads of the process
    stack,            \* thread -> its call stack, innermost frame last
    ret,              \* thread -> value or exception handed to the caller
    visited,          \* thread -> the visited set of the running _get_fields
    done,             \* thread -> its last completed get_filters call
    lastReg,          \* class -> registry last returned by a full build
    lastRead,         \* thread -> its last read of a filterset property
    calls,            \* thread -> the number of get_filters calls it has made
    quota             \* the number of calls a thread makes at most

regVars == <<cfgRelated, cfgMeta, hasModel, isPostgresql, hasTrigram, fsRef,
             metaCur, declHidden, expandedFilters, isExpanding, threads,
             stack, ret, visited, done, lastReg, lastRead, calls, quota>>

\* ------------------------------------------------------------------------
\* BaseRelatedFilter.filterset
\* ------------------------------------------------------------------------

\* cls.__module__
ModuleOf(c) == APP

\* django.utils.module_loading.import_string: the class named by a dotted
\* path, or ImportError
ImportString(path) ==
    IF Len(path) = 2 /\ path[1] = APP /\ path[2] \in FilterSets
    THEN [raised |-> FALSE, cls |-> path[2]]
    ELSE [raised |-> TRUE, cls |-> ""]

\* one read of the property on a filter bound to the class bound:
\* what it returns (or raises) and what it leaves in _filterset
ReadFilterset(ref, bound) ==
    IF ref.isStr
    THEN LET abs == ImportString(ref.path)
             rel == ImportString(<<ModuleOf(bound)>> \o ref.path)
             got == IF abs.raised THEN rel ELSE abs
         IN IF got.raised
            THEN [raised |-> TRUE, isNone |-> FALSE, cls |-> "", ref |-> ref]
            ELSE [raised |-> FALSE, isNone |-> FALSE, cls |-> got.cls,
                  ref |-> ClassRef(got.cls)]
    ELSE [raised |-> FALSE, isNone |-> TRUE, cls |-> "", ref |-> ref]

\* ------------------------------------------------------------------------
\* django-filter: filter names and the base registry
\* ------------------------------------------------------------------------

\* BaseFilterSet.get_filter_name
get_filter_name(field_name, lookup_expr) ==
    LET filter_name == Join(field_name, lookup_expr)
        default == <<LOOKUP_SEP, DEFAULT_LOOKUP_EXPR>>
    IN IF EndsWith(filter_name, default)
       THEN SubSeq(filter_name, 1, Len(filter_name) - Len(default))
       ELSE filter_name

NewFilter(name, field_name, lookup_expr, src) ==
    [name |-> name, field_name |-> field_name, lookup_expr |-> lookup_expr, src |-> src]

\* the declared filters of the class: its related filters, each under its
\* attribute name
OrigDeclared(c) ==
    [i \in 1..Len(cfgRelated[c]) |->
        NewFilter(cfgRelated[c][i].name, cfgRelated[c][i].field_name,
                  <<DEFAULT_LOOKUP_EXPR>>, "declared")]

\* cls.declared_filters as it is now
DeclaredFilters(c) == IF declHidden[c] THEN <<>> ELSE OrigDeclared(c)

\* get_model_field(model, name) is not None
ModelHasField(name) == ~Contains(name, <<"nosuch">>)

RECURSIVE GenLookups(_, _, _, _)
GenLookups(filters, declared, field_name, lookups) ==
    IF lookups = <<>> THEN filters
    ELSE LET filter_name == get_filter_name(field_name, Head(lookups))
             next == IF Has(declared, filter_name)
                     THEN Put(filters, Get(declared, filter_name))
                     ELSE IF ModelHasField(field_name)
                     THEN Put(filters, NewFilter(filter_name, field_name,
                                                 Head(lookups), "meta"))
                     ELSE filters
         IN GenLookups(next, declared, field_name, Tail(lookups))

RECURSIVE GenFields(_, _, _)
GenFields(filters, declared, fields) ==
    IF fields = <<>> THEN filters
    ELSE GenFields(GenLookups(filters, declared, Head(fields).name,
                              Head(fields).lookups),
                   declared, Tail(fields))

\* resolve_field(field, lookup_expr) finds the lookup on the field
FieldHasLookup(lookup_expr) == ~Contains(lookup_expr, <<"nolookup">>)

\* a lookup of a field of the model that filter_for_field cannot resolve and
\* that no declared filter stands for
UnresolvedLookup(fields, declared) ==
    \E i \in 1..Len(fields) : \E k \in 1..Len(fields[i].lookups) :
        /\ ModelHasField(fields[i].name)
        /\ ~Has(declared, get_filter_name(fields[i].name, fields[i].lookups[k]))
        /\ ~FieldHasLookup(fields[i].lookups[k])

\* BaseFilterSet.get_filters on the result of cls.get_fields(): one filter
\* per (field, lookup), then the declared filters; FieldLookupError when a
\* field does not have the lookup, TypeError when Meta.fields names a field
\* the model does not have
BaseGetFilters(fields, declared) ==
    IF UnresolvedLookup(fields, declared)
    THEN [raised |-> TRUE, exc |-> "FieldLookupError", val |-> <<>>]
    ELSE IF \E i \in 1..Len(fields) : ~ModelHasField(fields[i].name)
    THEN [raised |-> TRUE, exc |-> "TypeError", val |-> <<>>]
    ELSE [raised |-> FALSE, exc |-> "",
          val |-> DictUpdate(GenFields(<<>>, declared, fields), declared)]


\* ------------------------------------------------------------------------
\* Related-filter expansion and full-text synthesis
\* ------------------------------------------------------------------------

RECURSIVE RebaseAll(_, _, _)
\* the loop of expand_related_filter over the target's filters
RebaseAll(expanded, f, target_filters) ==
    IF target_filters = <<>> THEN expanded
    ELSE LET field == Head(target_filters)
             field_copy == NewFilter(Join(f.name, field.name),
                                     Join(f.field_name, field.field_name),
                                     field.lookup_expr, "related")
         IN RebaseAll(Put(expanded, field_copy), f, Tail(target_filters))

RECURSIVE AutoExpanded(_, _, _, _)
\* the loop of expand_auto_filter over the generated filters
AutoExpanded(expanded, f, gen_filters, orig_declared) ==
    IF gen_filters = <<>> THEN expanded
    ELSE LET gen_f == Head(gen_filters)
             gen_name == ReplaceFirst(gen_f.name, f.field_name, f.name)
             next == IF ~Has(orig_declared, gen_name)
                     THEN Put(expanded, [gen_f EXCEPT !.name = gen_name, !.src = "auto"])
                     ELSE expanded
         IN AutoExpanded(next, f, Tail(gen_filters), orig_declared)

\* all_filters.update(expanded)
MergeExpanded(all_filters, expanded) == DictUpdate(all_filters, expanded)

\* is_full_text_search_lookup_expr
is_full_text_search_lookup_expr(lookup_expr) ==
    LastSegment(lookup_expr) = <<"full_text_search">>

\* is_regular_lookup_expr
is_regular_lookup_expr(lookup_expr) == ~is_full_text_search_lookup_expr(lookup_expr)

Predicate(pred, lookup_expr) ==
    IF pred = "fts" THEN is_full_text_search_lookup_expr(lookup_expr)
    ELSE is_regular_lookup_expr(lookup_expr)

\* SearchQueryFilter / SearchRankFilter / TrigramFilter .available_lookups
QueryLookups == <<(<<"exact">>)>>
RankLookups == <<(<<"exact">>), (<<"gt">>), (<<"gte">>), (<<"lt">>), (<<"lte">>)>>

RECURSIVE create_special_filters(_, _, _, _)
\* one filter per available lookup of the kind, skipping taken names
create_special_filters(base_filters, postfix_field_name, lookups, new_filters) ==
    IF lookups = <<>> THEN new_filters
    ELSE LET filter_name == get_filter_name(postfix_field_name, Head(lookups))
             next == IF ~Has(base_filters, filter_name)
                     THEN Put(new_filters, NewFilter(filter_name, postfix_field_name,
                                                     Head(lookups), "fts"))
                     ELSE new_filters
         IN create_special_filters(base_filters, postfix_field_name, Tail(lookups), next)

RECURSIVE TrigramFilters(_, _, _)
\* the trigram loop of create_full_text_search_filters
TrigramFilters(base_filters, fields, new_filters) ==
    IF fields = <<>> THEN new_filters
    ELSE TrigramFilters(base_filters, Tail(fields),
            DictUpdate(new_filters,
                create_special_filters(base_filters,
                    Join(Head(fields).name, <<"trigram">>), RankLookups, <<>>)))

\* create_full_text_search_filters without the test of
\* settings.HAS_TRIGRAM_EXTENSION
create_full_text_search_filters_Unguarded(base_filters, full_text_search_fields) ==
    IF Len(full_text_search_fields) = 0 THEN [val |-> <<>>, warned |-> 0]
    ELSE IF ~isPostgresql THEN [val |-> <<>>, warned |-> 1]
    ELSE [val |-> TrigramFilters(base_filters, full_text_search_fields,
                     DictUpdate(
                         create_special_filters(base_filters, <<"search_query">>,
                                                QueryLookups, <<>>),
                         create_special_filters(base_filters, <<"search_rank">>,
                                                RankLookups, <<>>))),
          warned |-> 0]

\* create_full_text_search_filters, given the full-text-search fields:
\* the new filters and the number of warnings issued
create_full_text_search_filters(base_filters, full_text_search_fields) ==
    IF Len(full_text_search_fields) = 0 THEN [val |-> <<>>, warned |-> 0]
    ELSE IF ~isPostgresql THEN [val |-> <<>>, warned |-> 1]
    ELSE LET new_filters ==
                 DictUpdate(
                     create_special_filters(base_filters, <<"search_query">>,
                                            QueryLookups, <<>>),
                     create_special_filters(base_filters, <<"search_rank">>,
                                            RankLookups, <<>>))
         IN IF ~hasTrigram THEN [val |-> new_filters, warned |-> 1]
            ELSE [val |-> TrigramFilters(base_filters, full_text_search_fields,
                                         new_filters),
                  warned |-> 0]

RECURSIVE PrefixFields(_, _)
\* fields.append((related_name + "__" + key, value)) for every item of f
PrefixFields(related_name, f) ==
    IF f = <<>> THEN <<>>
    ELSE <<[name |-> Join(related_name, Head(f).name), lookups |-> Head(f).lookups]>>
         \o PrefixFields(related_name, Tail(f))

RECURSIVE SelectLookups(_, _)
\* [lookup_expr for lookup_expr in v if predicate(lookup_expr)]
SelectLookups(pred, v) ==
    IF v = <<>> THEN <<>>
    ELSE (IF Predicate(pred, Head(v)) THEN <<Head(v)>> ELSE <<>>)
         \o SelectLookups(pred, Tail(v))

RECURSIVE OwnFields(_, _)
\* the loop of _get_fields over super().get_fields()
OwnFields(pred, meta_fields) ==
    IF meta_fields = <<>> THEN <<>>
    ELSE LET regular_field == SelectLookups(pred, Head(meta_fields).lookups)
         IN (IF Len(regular_field) > 0
             THEN <<[name |-> Head(meta_fields).name, lookups |-> regular_field]>>
             ELSE <<>>)
            \o OwnFields(pred, Tail(meta_fields))


\* ------------------------------------------------------------------------
\* Expressions (django.db.models.Q) and the queryable state
\* ------------------------------------------------------------------------

\* the rows of the table: the column a is r % 2, the column b is r \div 2
Rows == 0..3

\* an expression is empty (Q()), or it selects rows and refers to the
\* annotations named in refs
EmptyQ == [empty |-> TRUE, rows |-> {}, refs |-> {}]
LeafQ(rows, refs) == [empty |-> FALSE, rows |-> rows, refs |-> refs]

\* Q.__and__: an empty operand yields the other operand
QAnd(x, y) ==
    IF x.empty THEN y
    ELSE IF y.empty THEN x
    ELSE [empty |-> FALSE, rows |-> x.rows \cap y.rows, refs |-> x.refs \cup y.refs]

\* Q.__or__: an empty operand yields the other operand
QOr(x, y) ==
    IF x.empty THEN y
    ELSE IF y.empty THEN x
    ELSE [empty |-> FALSE, rows |-> x.rows \cup y.rows, refs |-> x.refs \cup y.refs]

\* Q.__invert__: the negation of an empty expression has no children either
QNot(x) ==
    IF x.empty THEN x
    ELSE [empty |-> FALSE, rows |-> Rows \ x.rows, refs |-> x.refs]

\* the rows queryset.filter(q) selects
Selected(q) == IF q.empty THEN Rows ELSE q.rows

\* a queryset: the names of its annotations
BaseQuerySet == [annotations |-> {}]

\* QuerySetProxy(wrapped, q): q or models.Q()
QuerySetProxy(wrapped, q) == [qs |-> wrapped, q |-> q]

\* QuerySetProxy.filter_ and exclude_, called with lookup=value
filter_(proxy, q) == [proxy EXCEPT !.q = QAnd(proxy.q, q)]
exclude_(proxy, q) == [proxy EXCEPT !.q = QAnd(proxy.q, QNot(q))]

\* a callable attribute of the wrapped queryset that returns a queryset:
\* annotate(name=...)
annotate(proxy, name) ==
    QuerySetProxy([annotations |-> proxy.qs.annotations \cup {name}], proxy.q)

\* ------------------------------------------------------------------------
\* QuerySetProxy with the expressions as objects
\* ------------------------------------------------------------------------

VARIABLES
    qObjects,         \* the expression objects made so far, by identity
    proxies,          \* the proxies made so far: [qs, q] with q an identity
    lastCall,         \* the call on a proxy made last
    lkGraph,          \* the registered lookups of the field types
    lkStack,          \* the frames of lookups_for_field / lookups_for_transform
    lkResult,         \* what lookups_for_field returned
    ffFilters,        \* self.filters of the instance find_filter is called on
    ffCall            \* the data key find_filter was called with and the result

proxyVars == <<qObjects, proxies, lastCall>>
lookupVars == <<lkGraph, lkStack, lkResult>>
findVars == <<ffFilters, ffCall>>
unitVars == <<proxyVars, lookupVars, findVars>>

\* expression objects made for the proxies of one construction
MaxObjects == 7

\* a new expression object
NewQ(objects, q) == [objects |-> Append(objects, q), ref |-> Len(objects) + 1]

\* an in-place `&=` that changes the object the proxy holds
IAnd_InPlace(objects, ref, q) ==
    [objects |-> [objects EXCEPT ![ref] = QAnd(@, q)], ref |-> ref]

\* self.q &= q: Q has no __iand__, Q.__and__ returns a new object
IAnd(objects, ref, q) == NewQ(objects, QAnd(objects[ref], q))

\* ~q: Q.__invert__ returns a new object
Invert(objects, ref) == NewQ(objects, QNot(objects[ref]))

\* QuerySetProxy.__init__: self.q = q or models.Q(); given is 0 for None
ProxyNew(objects, wrapped, given) ==
    IF given = 0 \/ objects[given].empty
    THEN [objects |-> Append(objects, EmptyQ),
          proxy |-> QuerySetProxy(wrapped, Len(objects) + 1)]
    ELSE [objects |-> objects, proxy |-> QuerySetProxy(wrapped, given)]

\* the expressions a caller passes
ProxyArgs == {EmptyQ, LeafQ({1, 3}, {}), LeafQ({2, 3}, {})}

NoProxyCall == [op |-> "", on |-> 0, arg |-> 0]
ProxyAtRest == qObjects = <<>> /\ proxies = <<>> /\ lastCall = NoProxyCall
NoLookups == [set |-> FALSE, field |-> "", status |-> "", val |-> <<>>]
LookupsAtRest == lkGraph = <<>> /\ lkStack = <<>> /\ lkResult = NoLookups
NoFind == [set |-> FALSE, key |-> <<>>, found |-> 0]
FindAtRest == ffFilters = <<>> /\ ffCall = NoFind
UnitsAtRest == ProxyAtRest /\ LookupsAtRest /\ FindAtRest

\* QuerySetProxy(wrapped, q) on a queryset, with an expression or with None
ProxyInit ==
    \E given \in ProxyArgs \cup {<<>>} :
        LET objects == IF given = <<>> THEN <<>> ELSE <<given>>
            made == ProxyNew(objects, BaseQuerySet, Len(objects))
        IN /\ qObjects = made.objects
           /\ proxies = <<made.proxy>>
           /\ lastCall = NoProxyCall

\* proxy.filter(arg): filter_ with the expression arg
ProxyFilter(i, arg) ==
    /\ i \in 1..Len(proxies)
    /\ Len(qObjects) + 3 <= MaxObjects
    /\ LET passed == NewQ(qObjects, arg)
           made == IAnd(passed.objects, proxies[i].q, passed.objects[passed.ref])
       IN /\ qObjects' = made.objects
          /\ proxies' = [proxies EXCEPT ![i].q = made.ref]
          /\ lastCall' = [op |-> "filter", on |-> i, arg |-> passed.ref]
    /\ UNCHANGED <<lookupVars, findVars>>

\* proxy.exclude(arg): exclude_ with the expression arg
ProxyExclude(i, arg) ==
    /\ i \in 1..Len(proxies)
    /\ Len(qObjects) + 3 <= MaxObjects
    /\ LET passed == NewQ(qObjects, arg)
           inverted == Invert(passed.objects, passed.ref)
           made == IAnd(inverted.objects, proxies[i].q, inverted.objects[inverted.ref])
       IN /\ qObjects' = made.objects
          /\ proxies' = [proxies EXCEPT ![i].q = made.ref]
          /\ lastCall' = [op |-> "exclude", on |-> i, arg |-> passed.ref]
    /\ UNCHANGED <<lookupVars, findVars>>

\* any other callable attribute that returns a queryset, here
\* annotate(name=...): _make_callable_proxy returns QuerySetProxy(result, self.q)
ProxyOther(i, name) ==
    /\ i \in 1..Len(proxies)
    /\ Len(proxies) < 2
    /\ LET made == ProxyNew(qObjects,
                            [annotations |-> proxies[i].qs.annotations \cup {name}],
                            proxies[i].q)
       IN /\ qObjects' = made.objects
          /\ proxies' = Append(proxies, made.proxy)
          /\ lastCall' = [op |-> "other", on |-> i, arg |-> lastCall.arg]
    /\ UNCHANGED <<lookupVars, findVars>>

\* ------------------------------------------------------------------------
\* utils: lookups_for_field and lookups_for_transform
\* ------------------------------------------------------------------------

\* the field types and the transform classes of a project
FieldTypes == {"text", "num"}
Transforms == {"Unaccent", "Length"}

\* frames of lookups_for_field / lookups_for_transform on the interpreter's
\* stack before RecursionError is raised
MaxRecursion == 5

\* the registered name of a transform class
LookupName(cls) == IF cls = "Unaccent" THEN <<"unaccent">> ELSE <<"length">>

\* an item of get_lookups(): the name and the class registered under it
Registered(name, cls, transform) == [name |-> name, cls |-> cls, transform |-> transform]

\* the lookups of the field types that are no transforms
Terminals(ft) ==
    IF ft = "text"
    THEN <<Registered(<<"exact">>, "Exact", FALSE),
           Registered(<<"icontains">>, "IContains", FALSE)>>
    ELSE <<Registered(<<"exact">>, "Exact", FALSE),
           Registered(<<"gt">>, "GreaterThan", FALSE)>>

\* the transforms registered on a field type, in the order of get_lookups()
TransformLists ==
    {<<>>, <<"Unaccent">>, <<"Length">>, <<"Unaccent", "Length">>, <<"Length", "Unaccent">>}

\* field type -> get_lookups(), transform class -> the type of output_field
Graphs ==
    {[fields |-> [ft \in FieldTypes |->
                    [i \in 1..Len(regs[ft]) |->
                        Registered(LookupName(regs[ft][i]), regs[ft][i], TRUE)]
                    \o Terminals(ft)],
      output |-> out] :
        regs \in [FieldTypes -> TransformLists], out \in [Transforms -> FieldTypes]}

\* a frame of lookups_for_field (transform = "") or of lookups_for_transform
LookupsFrame(transform, ft) ==
    [transform |-> transform, ft |-> ft, i |-> 1, lookups |-> <<>>]

\* a comparison of the classes that never holds
SameClass_Never(transform, lookup) == FALSE

\* type(transform) is lookup
SameClass(transform, lookup) == transform = lookup

\* [LOOKUP_SEP.join([expr, sub_expr]) for sub_expr in ...]
JoinAll(expr, sub_exprs) == [k \in 1..Len(sub_exprs) |-> Join(expr, sub_exprs[k])]

\* lookups_for_field(model_field) is called
LookupsForField(ft) ==
    /\ lkStack = <<>>
    /\ ~lkResult.set
    /\ lkStack' = <<LookupsFrame("", ft)>>
    /\ lkResult' = [lkResult EXCEPT !.field = ft]
    /\ UNCHANGED <<lkGraph, proxyVars, findVars>>

\* one pass of `for expr, lookup in ....get_lookups().items()`
LookupsItem ==
    /\ lkStack # <<>>
    /\ LET f == lkStack[Len(lkStack)]
           items == lkGraph.fields[f.ft]
       IN /\ f.i <= Len(items)
          /\ IF ~items[f.i].transform
             THEN \* lookups.append(expr)
                  /\ lkStack' = [lkStack EXCEPT ![Len(lkStack)] =
                                    [f EXCEPT !.i = f.i + 1,
                                              !.lookups = Append(f.lookups, items[f.i].name)]]
                  /\ UNCHANGED lkResult
             ELSE IF f.transform # "" /\ SameClass(f.transform, items[f.i].cls)
             THEN \* continue
                  /\ lkStack' = [lkStack EXCEPT ![Len(lkStack)] = [f EXCEPT !.i = f.i + 1]]
                  /\ UNCHANGED lkResult
             ELSE IF Len(lkStack) = MaxRecursion
             THEN \* the interpreter's recursion limit
                  /\ lkStack' = <<>>
                  /\ lkResult' = [lkResult EXCEPT !.set = TRUE, !.status = "RecursionError"]
             ELSE \* lookups_for_transform(lookup(...))
                  /\ lkStack' = Append(lkStack,
                                       LookupsFrame(items[f.i].cls,
                                                    lkGraph.output[items[f.i].cls]))
                  /\ UNCHANGED lkResult
    /\ UNCHANGED <<lkGraph, proxyVars, findVars>>

\* return lookups
LookupsReturn ==
    /\ lkStack # <<>>
    /\ LET f == lkStack[Len(lkStack)]
           n == Len(lkStack)
       IN /\ f.i > Len(lkGraph.fields[f.ft])
          /\ IF n = 1
             THEN /\ lkStack' = <<>>
                  /\ lkResult' = [lkResult EXCEPT !.set = TRUE, !.status = "ok",
                                                  !.val = f.lookups]
             ELSE LET caller == lkStack[n - 1]
                      expr == lkGraph.fields[caller.ft][caller.i].name
                  IN /\ lkStack' = [SubSeq(lkStack, 1, n - 1) EXCEPT ![n - 1] =
                                       [caller EXCEPT !.i = caller.i + 1,
                                                      !.lookups = caller.lookups
                                                                  \o JoinAll(expr, f.lookups)]]
                     /\ UNCHANGED lkResult
    /\ UNCHANGED <<lkGraph, proxyVars, findVars>>

\* ------------------------------------------------------------------------
\* The filters of a filterset instance and the values of a form
\* ------------------------------------------------------------------------

\* a value of cleaned_data: None, or a number; for an annotated filter the
\* number is the search_value of a Value
None == [empty |-> TRUE, v |-> 0]
Val(v) == [empty |-> FALSE, v |-> v]

\* value in EMPTY_VALUES
IsEmptyValue(value) == value.empty

\* self.filters of the instance the composer runs on
ComposerFilters ==
    << [name |-> <<"a">>, field_name |-> <<"a">>, lookup_expr |-> <<"exact">>,
        annotated |-> FALSE, exclude |-> FALSE],
       [name |-> <<"b">>, field_name |-> <<"b">>, lookup_expr |-> <<"exact">>,
        annotated |-> FALSE, exclude |-> TRUE],
       [name |-> <<"search_query">>, field_name |-> <<"search_query">>,
        lookup_expr |-> <<"exact">>, annotated |-> TRUE, exclude |-> FALSE] >>

\* the rows whose column (or annotation) field_name has the value v
Matching(field_name, v) ==
    IF field_name = <<"a">> THEN {r \in Rows : r % 2 = v}
    ELSE IF field_name = <<"b">> THEN {r \in Rows : r \div 2 = v}
    ELSE {r \in Rows : ((r % 2) + (r \div 2)) % 2 = v}

\* values a filter_counter takes at most
MaxCounter == 4

VARIABLES
    filterCounter,    \* filter name -> filter_counter of the annotated filter
    form,             \* the form tree filter_queryset was called with last
    result            \* what the composer returned for it: [qs, q]

compVars == <<filterCounter, form, result>>

\* str.rsplit(LOOKUP_SEP, 1) of a data key that holds a separator
RSplitHead(s) ==
    SubSeq(s, 1, (CHOOSE i \in SepPositions(s) : \A j \in SepPositions(s) : j <= i) - 1)

\* find_filter that looks the data key up as it is
find_filter_Verbatim(filters, data_key) ==
    LET sep == SepPositions(data_key) # {}
        field_name == IF sep THEN RSplitHead(data_key) ELSE data_key
        lookup_expr == IF sep THEN LastSegment(data_key) ELSE <<DEFAULT_LOOKUP_EXPR>>
        same == {i \in 1..Len(filters) :
                    /\ filters[i].field_name = field_name
                    /\ filters[i].lookup_expr = lookup_expr}
    IN IF Has(filters, data_key)
       THEN CHOOSE i \in 1..Len(filters) : filters[i].name = data_key
       ELSE IF same # {} THEN CHOOSE i \in same : \A j \in same : i <= j
       ELSE 0

\* AdvancedFilterSet.find_filter: the position in filters of the filter a
\* data key selects, 0 for None
find_filter(filters, data_key) ==
    LET sep == SepPositions(data_key) # {}
        field_name == IF sep THEN RSplitHead(data_key) ELSE data_key
        lookup_expr == IF sep THEN LastSegment(data_key) ELSE <<DEFAULT_LOOKUP_EXPR>>
        key == IF lookup_expr = <<DEFAULT_LOOKUP_EXPR>> THEN field_name ELSE data_key
        same == {i \in 1..Len(filters) :
                    /\ filters[i].field_name = field_name
                    /\ filters[i].lookup_expr = lookup_expr}
    IN IF Has(filters, key)
       THEN CHOOSE i \in 1..Len(filters) : filters[i].name = key
       ELSE IF same # {} THEN CHOOSE i \in same : \A j \in same : i <= j
       ELSE 0

\* filters an instance may hold: named by the convention, moved to another
\* key, and two of one field and lookup
FilterPool ==
    { [name |-> <<"a">>, field_name |-> <<"a">>, lookup_expr |-> <<"exact">>],
      [name |-> Join(<<"a">>, <<"gt">>), field_name |-> <<"a">>, lookup_expr |-> <<"gt">>],
      [name |-> <<"fake_key">>, field_name |-> <<"a">>, lookup_expr |-> <<"exact">>],
      [name |-> <<"older">>, field_name |-> <<"a">>, lookup_expr |-> <<"gt">>],
      [name |-> Join(<<"rel">>, <<"name">>), field_name |-> Join(<<"rel">>, <<"name">>),
       lookup_expr |-> <<"exact">>] }

\* self.filters: up to three filters of the pool under their names
FindRegistries ==
    {fs \in {<<>>} \cup {<<x>> : x \in FilterPool}
                   \cup {<<x, y>> : x \in FilterPool, y \in FilterPool}
                   \cup {<<x, y, z>> : x \in FilterPool, y \in FilterPool,
                                        z \in FilterPool} :
        \A i \in 1..Len(fs), j \in 1..Len(fs) : fs[i].name = fs[j].name => i = j}

\* the data keys find_filter is called with
FindKeys ==
    { <<"a">>, Join(<<"a">>, <<"exact">>), Join(<<"a">>, <<"gt">>), <<"fake_key">>,
      <<"missing">>, <<"older">>, Join(<<"rel">>, <<"name">>),
      Join(Join(<<"rel">>, <<"name">>), <<"exact">>),
      Join(Join(<<"a">>, <<"exact">>), <<"exact">>) }

\* self.find_filter(data_key)
FindFilter(data_key) ==
    /\ ffCall' = [set |-> TRUE, key |-> data_key,
                  found |-> find_filter(ffFilters, data_key)]
    /\ UNCHANGED <<ffFilters, proxyVars, lookupVars>>

\* a name that leaves the counter out
annotation_name_NoCounter(f, counter) == <<f.name, 0>>

\* AnnotatedFilter.annotation_name
annotation_name(f, counter) == <<f.name, counter[f.name]>>

\* Filter.filter and AnnotatedFilter.filter on a proxy: the proxy returned
\* and the filter counters after the call
FilterApply(f, proxy, value, counter) ==
    IF IsEmptyValue(value) THEN [proxy |-> proxy, counter |-> counter]
    ELSE IF f.annotated
    THEN LET name == annotation_name(f, counter)
             q == LeafQ(Matching(f.field_name, value.v), {name})
         IN [proxy |-> filter_(annotate(proxy, name), q),
             counter |-> [counter EXCEPT ![f.name] = @ + 1]]
    ELSE LET q == LeafQ(Matching(f.field_name, value.v), {})
         IN [proxy |-> IF f.exclude THEN exclude_(proxy, q) ELSE filter_(proxy, q),
             counter |-> counter]

\* ------------------------------------------------------------------------
\* AdvancedFilterSet.get_queryset_proxy_for_form
\* ------------------------------------------------------------------------

\* the element of a one-element set: x ranges over {e} in {F(x) : x \in {e}}
\* to name the value of e
Only(S) == CHOOSE x \in S : TRUE

\* qs, q = <filter>.filter(QuerySetProxy(qs, q), value)
LeafStep(st, r) == [qs |-> r.proxy.qs, q |-> r.proxy.q, counter |-> r.counter]

RECURSIVE LeavesLoop(_, _, _)
\* for name, value in form.cleaned_data.items(): st holds qs, q and the
\* filter counters
LeavesLoop(filters, st, items) ==
    IF items = <<>> THEN st
    ELSE Only({LeavesLoop(filters, next, Tail(items)) :
                 next \in {LeafStep(st, FilterApply(
                                            filters[find_filter(filters, Head(items).name)],
                                            QuerySetProxy(st.qs, st.q), Head(items).value,
                                            st.counter))}})

RECURSIVE get_queryset_proxy_for_form(_, _, _, _)

\* qs, new_q = ...; and_q = and_q & new_q
AndStep(st, r) == [qs |-> r.qs, q |-> QAnd(st.q, r.q), counter |-> r.counter]

\* qs, new_q = ...; or_q = or_q | new_q
OrStep(st, r) == [qs |-> r.qs, q |-> QOr(st.q, r.q), counter |-> r.counter]

\* qs, new_q = ...; not_q = ~new_q
NotStep(r) == [qs |-> r.qs, q |-> QNot(r.q), counter |-> r.counter]

\* and_q = models.Q(), or_q = models.Q(): a loop starts on the running qs
LoopStart(st) == [qs |-> st.qs, q |-> EmptyQ, counter |-> st.counter]

RECURSIVE AndLoop(_, _, _)
\* for and_form in form.and_forms: st holds qs, and_q and the counters
AndLoop(filters, st, forms) ==
    IF forms = <<>> THEN st
    ELSE Only({AndLoop(filters, AndStep(st, r), Tail(forms)) :
                 r \in {get_queryset_proxy_for_form(filters, st.qs, Head(forms),
                                                    st.counter)}})

RECURSIVE OrLoop_AndFold(_, _, _)
\* the loop over or_forms folding with & instead of |
OrLoop_AndFold(filters, st, forms) ==
    IF forms = <<>> THEN st
    ELSE Only({OrLoop_AndFold(filters, AndStep(st, r), Tail(forms)) :
                 r \in {get_queryset_proxy_for_form(filters, st.qs, Head(forms),
                                                    st.counter)}})

RECURSIVE OrLoop(_, _, _)
\* for or_form in form.or_forms: st holds qs, or_q and the counters
OrLoop(filters, st, forms) ==
    IF forms = <<>> THEN st
    ELSE Only({OrLoop(filters, OrStep(st, r), Tail(forms)) :
                 r \in {get_queryset_proxy_for_form(filters, st.qs, Head(forms),
                                                    st.counter)}})

\* the not subtree evaluated on the running queryset
NotPart_Running(filters, queryset, fm, ors) ==
    IF fm.not_form # <<>>
    THEN NotStep(get_queryset_proxy_for_form(filters, ors.qs, fm.not_form[1],
                                             ors.counter))
    ELSE LoopStart(ors)

\* if form.not_form: the subtree is evaluated on the queryset the composer
\* was called with, and its queryset becomes the running one
NotPart(filters, queryset, fm, ors) ==
    IF fm.not_form # <<>>
    THEN NotStep(get_queryset_proxy_for_form(filters, queryset, fm.not_form[1],
                                             ors.counter))
    ELSE LoopStart(ors)

\* return QuerySetProxy(qs, q & and_q & or_q & not_q)
Returned(leaves, ands, ors, nots) ==
    [qs |-> nots.qs,
     q |-> QAnd(QAnd(QAnd(leaves.q, ands.q), ors.q), nots.q),
     counter |-> nots.counter]

\* the composer from the test of not_form on
FromOrs(filters, queryset, fm, leaves, ands, ors) ==
    Only({Returned(leaves, ands, ors, nots) :
            nots \in {NotPart(filters, queryset, fm, ors)}})

\* the composer from the loop over or_forms on
FromAnds(filters, queryset, fm, leaves, ands) ==
    Only({FromOrs(filters, queryset, fm, leaves, ands, ors) :
            ors \in {OrLoop(filters, LoopStart(ands), fm.or_forms)}})

\* the composer from the loop over and_forms on
FromLeaves(filters, queryset, fm, leaves) ==
    Only({FromAnds(filters, queryset, fm, leaves, ands) :
            ands \in {AndLoop(filters, LoopStart(leaves), fm.and_forms)}})

\* the composer: the queryset and expression returned, and the counters
get_queryset_proxy_for_form(filters, queryset, fm, counter) ==
    Only({FromLeaves(filters, queryset, fm, leaves) :
            leaves \in {LeavesLoop(filters,
                                   [qs |-> queryset, q |-> EmptyQ, counter |-> counter],
                                   fm.cleaned_data)}})


\* ------------------------------------------------------------------------
\* The forms filter_queryset is called with
\* ------------------------------------------------------------------------
Item(name, value) == [name |-> name, value |-> value]

\* TreeFormMixin: cleaned_data, and_forms, or_forms and not_form (a
\* sequence of no element for None)
TreeForm(data, ands, ors, nots) ==
    [cleaned_data |-> data, and_forms |-> ands, or_forms |-> ors, not_form |-> nots]

NoResult == [set |-> FALSE, qs |-> BaseQuerySet, q |-> EmptyQ]
NoForm == TreeForm(<<>>, <<>>, <<>>, <<>>)

\* cleaned_data of one level
LeafData ==
    { <<>>,
      <<Item(<<"a">>, Val(1))>>,
      <<Item(<<"a">>, None)>>,
      <<Item(<<"search_query">>, Val(1))>>,
      <<Item(<<"a">>, Val(0)), Item(<<"search_query">>, Val(0))>> }

Leaf(d) == TreeForm(d, <<>>, <<>>, <<>>)
Opt(S) == {<<>>} \cup {<<x>> : x \in S}

\* forms without subtrees: none, a = 1, b excluded, an annotated search
FormE == Leaf(<<>>)
FormA == Leaf(<<Item(<<"a">>, Val(1))>>)
FormB == Leaf(<<Item(<<"b">>, Val(0))>>)
FormS == Leaf(<<Item(<<"search_query">>, Val(1))>>)

\* forms over them, and forms one level deeper
AndChoices == {<<>>, <<FormA>>, <<FormS>>, <<FormS, FormB>>}
OrChoices == {<<>>, <<FormA>>, <<FormS, FormA>>, <<FormE, FormA>>, <<FormB, FormS>>}
NotChoices == Opt({FormE, FormA, FormB, FormS})
Forms1 ==
    {TreeForm(d, a, o, n) :
        d \in LeafData, a \in AndChoices, o \in OrChoices, n \in NotChoices}
Negated1 ==
    {TreeForm(d, <<>>, <<>>, <<n>>) :
        d \in {<<>>, <<Item(<<"search_query">>, Val(1))>>}, n \in {FormA, FormS}}
Forms2 ==
    {TreeForm(d, a, <<>>, n) :
        d \in {<<>>, <<Item(<<"search_query">>, Val(1))>>},
        a \in Opt(Negated1), n \in Opt(Negated1)}
Forms == Forms1 \cup Forms2

\* AdvancedFilterSet.filter_queryset on the form fm: the composer runs on
\* the queryset of the filterset
FilterQueryset(fm) ==
    \E r \in {get_queryset_proxy_for_form(ComposerFilters, BaseQuerySet, fm, filterCounter)} :
       /\ \A n \in DOMAIN filterCounter : r.counter[n] <= MaxCounter
       /\ form' = fm
       /\ result' = [set |-> TRUE, qs |-> r.qs, q |-> r.q]
       /\ filterCounter' = r.counter

ComposerAtRest ==
    /\ filterCounter = [n \in {<<"search_query">>} |-> 0]
    /\ form = NoForm
    /\ result = NoResult

\* ------------------------------------------------------------------------
\* The schema trees (FilterArgumentsFactory)
\* ------------------------------------------------------------------------

\* anytree.Node
Node(name, children) == [name |-> name, children |-> children]
NoNode == Node(<<>>, <<>>)

\* node.height == 0
IsLeaf(node) == node.children = <<>>

RECURSIVE Chain(_)
\* the loop of sequence_to_tree: every value the only child of the one before
Chain(values) ==
    IF Len(values) = 1 THEN Node(values[1], <<>>)
    ELSE Node(values[1], <<Chain(Tail(values))>>)

\* FilterArgumentsFactory.sequence_to_tree; with no values node stays None
\* and reading node.root raises AttributeError
sequence_to_tree(values) ==
    IF values = <<>> THEN [exc |-> TRUE, root |-> NoNode]
    ELSE [exc |-> FALSE, root |-> Chain(values)]

\* try_add_sequence that adds the new subtree at the root without asking
\* the children
try_add_sequence_NoDescent(root, values) ==
    IF values = <<>> THEN [exc |-> TRUE, added |-> FALSE, root |-> root]
    ELSE IF root.name # values[1] THEN [exc |-> FALSE, added |-> FALSE, root |-> root]
    ELSE IF sequence_to_tree(Tail(values)).exc
    THEN [exc |-> TRUE, added |-> FALSE, root |-> root]
    ELSE [exc |-> FALSE, added |-> TRUE,
          root |-> Node(root.name,
                        Append(root.children, sequence_to_tree(Tail(values)).root))]

RECURSIVE try_add_sequence(_, _)
RECURSIVE TryChildren(_, _, _)

\* FilterArgumentsFactory.try_add_sequence: whether it raised, the flag it
\* returned and the tree as it left it; values[0] of no values raises
\* IndexError
try_add_sequence(root, values) ==
    IF values = <<>> THEN [exc |-> TRUE, added |-> FALSE, root |-> root]
    ELSE IF root.name # values[1] THEN [exc |-> FALSE, added |-> FALSE, root |-> root]
    ELSE LET r == TryChildren(root.children, 1, Tail(values))
             t == sequence_to_tree(Tail(values))
         IN IF r.exc THEN [exc |-> TRUE, added |-> FALSE, root |-> root]
            ELSE IF r.added
            THEN [exc |-> FALSE, added |-> TRUE, root |-> Node(root.name, r.nodes)]
            ELSE IF t.exc THEN [exc |-> TRUE, added |-> FALSE, root |-> root]
            ELSE [exc |-> FALSE, added |-> TRUE,
                  root |-> Node(root.name, Append(root.children, t.root))]

\* for child in root.children: if try_add_sequence(child, values): return True
TryChildren(children, i, values) ==
    IF i > Len(children) THEN [exc |-> FALSE, added |-> FALSE, nodes |-> children]
    ELSE LET r == try_add_sequence(children[i], values)
         IN IF r.exc THEN [exc |-> TRUE, added |-> FALSE, nodes |-> children]
            ELSE IF r.added
            THEN [exc |-> FALSE, added |-> TRUE,
                  nodes |-> [children EXCEPT ![i] = r.root]]
            ELSE TryChildren(children, i + 1, values)

RECURSIVE AnyTree(_, _, _)
\* any(cls.try_add_sequence(tree, values) for tree in trees)
AnyTree(trees, i, values) ==
    IF i > Len(trees) THEN [exc |-> FALSE, added |-> FALSE, nodes |-> trees]
    ELSE LET r == try_add_sequence(trees[i], values)
         IN IF r.exc THEN [exc |-> TRUE, added |-> FALSE, nodes |-> trees]
            ELSE IF r.added
            THEN [exc |-> FALSE, added |-> TRUE, nodes |-> [trees EXCEPT ![i] = r.root]]
            ELSE AnyTree(trees, i + 1, values)

\* (*filter_value.field_name.split(LOOKUP_SEP), filter_value.lookup_expr)
PathOf(filter_value) == Append(Split(filter_value.field_name), filter_value.lookup_expr)

RECURSIVE TreesLoop(_, _, _)
\* the loop of filterset_to_trees over base_filters.values()
TreesLoop(base_filters, i, trees) ==
    IF i > Len(base_filters) THEN [exc |-> FALSE, trees |-> trees]
    ELSE LET values == PathOf(base_filters[i])
             r == AnyTree(trees, 1, values)
         IN IF r.exc THEN [exc |-> TRUE, trees |-> <<>>]
            ELSE IF r.added THEN TreesLoop(base_filters, i + 1, r.nodes)
            ELSE TreesLoop(base_filters, i + 1,
                           Append(trees, sequence_to_tree(values).root))

\* FilterArgumentsFactory.filterset_to_trees
filterset_to_trees(base_filters) == TreesLoop(base_filters, 1, <<>>)

\* SearchQueryFilter.postfix, SearchRankFilter.postfix, TrigramFilter.postfix
SearchQueryPostfix == <<"search_query">>
SearchRankPostfix == <<"search_rank">>
TrigramPostfix == <<"trigram">>

\* the keys of SPECIAL_FILTER_INPUT_TYPES_FACTORIES
SPECIAL_FILTER_INPUT_TYPES_FACTORIES ==
    {SearchQueryPostfix, SearchRankPostfix, TrigramPostfix}

VARIABLES
    outcome,          \* what resolve_queryset did with the last request
    userSettings      \* the settings of the library as Settings.__getattr__ gives them

reqVars == <<outcome, userSettings>>

\* DEFAULT_SETTINGS, and settings with keys of the project's own
DEFAULT_SETTINGS == [AND_KEY |-> <<"and">>, OR_KEY |-> <<"or">>, NOT_KEY |-> <<"not">>]
SettingsOptions ==
    {DEFAULT_SETTINGS, [AND_KEY |-> <<"all">>, OR_KEY |-> <<"any">>, NOT_KEY |-> <<"none">>]}

\* a graphene input type: a scalar field, one of the special input object
\* types, an input object type with its name, its fields in order and the
\* rank of its creation, or a reference by name (alone or in a list) that
\* is looked up in the cache when the schema is built
ScalarType == [kind |-> "scalar", name |-> <<>>, fields |-> <<>>, type_name |-> <<>>, id |-> 0]
SpecialType(name) ==
    [kind |-> "special", name |-> name, fields |-> <<>>, type_name |-> <<>>, id |-> 0]
ObjectType(type_name, fields, id) ==
    [kind |-> "object", name |-> <<>>, fields |-> fields, type_name |-> type_name, id |-> id]
LazyType(type_name) ==
    [kind |-> "lazy", name |-> <<>>, fields |-> <<>>, type_name |-> type_name, id |-> 0]
LazyList(type_name) ==
    [kind |-> "lazy_list", name |-> <<>>, fields |-> <<>>, type_name |-> type_name, id |-> 0]

\* settings.AND_KEY, settings.OR_KEY, settings.NOT_KEY
AND_KEY == userSettings.AND_KEY
OR_KEY == userSettings.OR_KEY
NOT_KEY == userSettings.NOT_KEY

\* stringcase.pascalcase of the name of a node: an underscore goes and the
\* letter after it is raised
pascalcase(name) ==
    [i \in 1..Len(name) |->
        IF name[i] = "_m" THEN "M" ELSE IF name[i] = "_score" THEN "Score" ELSE name[i]]

\* FilterArgumentsFactory.input_object_types with no type created
NoTypes == [types |-> <<>>, created |-> 0]

\* FilterArgumentsFactory.create_input_object_type: the type of that name,
\* and the cache after the call
create_input_object_type(cache, name, fields) ==
    IF Has(cache.types, name)
    THEN [type |-> Get(cache.types, name).type, cache |-> cache]
    ELSE [type |-> ObjectType(name, fields, cache.created + 1),
          cache |-> [types |-> Put(cache.types,
                                   [name |-> name,
                                    type |-> ObjectType(name, fields, cache.created + 1)]),
                     created |-> cache.created + 1]]

\* create_input_object_type that builds a type whatever the cache holds
create_input_object_type_Uncached(cache, name, fields) ==
    [type |-> ObjectType(name, fields, cache.created + 1),
     cache |-> [types |-> Put(cache.types,
                              [name |-> name,
                               type |-> ObjectType(name, fields, cache.created + 1)]),
                created |-> cache.created + 1]]

RECURSIVE JoinNames(_)
\* LOOKUP_SEP.join(names)
JoinNames(names) ==
    IF names = <<>> THEN <<>>
    ELSE IF Len(names) = 1 THEN names[1]
    ELSE Join(names[1], JoinNames(Tail(names)))

RECURSIVE create_filter_input_subfield(_, _, _, _, _)
RECURSIVE SubFields(_, _, _, _, _, _, _)

\* FilterArgumentsFactory.create_filter_input_subfield on the node root whose
\* path from its tree's root has the names path: whether it raised, the
\* type of the field and the cache
create_filter_input_subfield(base_filters, root, path, prefix, cache) ==
    IF root.name \in SPECIAL_FILTER_INPUT_TYPES_FACTORIES
    THEN [exc |-> FALSE, type |-> SpecialType(root.name), cache |-> cache]
    ELSE LET r == SubFields(base_filters, root.children, 1, path,
                            prefix \o pascalcase(root.name), <<>>, cache)
             made == create_input_object_type(
                         r.cache, prefix \o pascalcase(root.name) \o <<"FilterInputType">>,
                         r.fields)
         IN IF r.exc THEN [exc |-> TRUE, type |-> ScalarType, cache |-> r.cache]
            ELSE [exc |-> FALSE, type |-> made.type, cache |-> made.cache]

\* its loop over root.children; base_filters[filter_name] raises KeyError
\* when no filter has the name joined from the path
SubFields(base_filters, children, i, path, prefix, fields, cache) ==
    IF i > Len(children) THEN [exc |-> FALSE, fields |-> fields, cache |-> cache]
    ELSE LET child == children[i]
             child_path == Append(path, child.name)
             Kept(n) == n # <<DEFAULT_LOOKUP_EXPR>>
             filter_name == JoinNames(SelectSeq(child_path, Kept))
             r == create_filter_input_subfield(base_filters, child, child_path, prefix,
                                               cache)
         IN IF IsLeaf(child)
            THEN IF ~Has(base_filters, filter_name)
                 THEN [exc |-> TRUE, fields |-> <<>>, cache |-> cache]
                 ELSE SubFields(base_filters, children, i + 1, path, prefix,
                                Put(fields, [name |-> child.name, type |-> ScalarType]),
                                cache)
            ELSE IF r.exc THEN [exc |-> TRUE, fields |-> <<>>, cache |-> r.cache]
            ELSE SubFields(base_filters, children, i + 1, path, prefix,
                           Put(fields, [name |-> child.name, type |-> r.type]), r.cache)

RECURSIVE RootFields(_, _, _, _, _, _)
\* input_fields of create_filter_input_type: one field per root
RootFields(base_filters, roots, i, prefix, fields, cache) ==
    IF i > Len(roots) THEN [exc |-> FALSE, fields |-> fields, cache |-> cache]
    ELSE LET r == create_filter_input_subfield(base_filters, roots[i], <<roots[i].name>>,
                                               prefix, cache)
         IN IF r.exc THEN [exc |-> TRUE, fields |-> <<>>, cache |-> r.cache]
            ELSE RootFields(base_filters, roots, i + 1, prefix,
                            Put(fields, [name |-> roots[i].name, type |-> r.type]),
                            r.cache)

\* logic_fields of create_filter_input_type: lists of, and a reference to,
\* the type the cache holds under the name of the root type
logic_fields(type_name) ==
    <<[name |-> AND_KEY, type |-> LazyList(type_name)],
      [name |-> OR_KEY, type |-> LazyList(type_name)],
      [name |-> NOT_KEY, type |-> LazyType(type_name)]>>

\* FilterArgumentsFactory.create_filter_input_type: whether it raised, the
\* root input type it made and stored, and the cache
create_filter_input_type(base_filters, roots, prefix, cache) ==
    LET r == RootFields(base_filters, roots, 1, prefix, <<>>, cache)
        filter_input_type_name == prefix \o <<"FilterInputType">>
        made == ObjectType(filter_input_type_name,
                           DictUpdate(r.fields, logic_fields(filter_input_type_name)),
                           r.cache.created + 1)
    IN IF r.exc THEN [exc |-> TRUE, type |-> ScalarType, cache |-> r.cache]
       ELSE [exc |-> FALSE, type |-> made,
             cache |-> [types |-> Put(r.cache.types,
                                      [name |-> filter_input_type_name, type |-> made]),
                        created |-> r.cache.created + 1]]

\* ------------------------------------------------------------------------
\* The value-tree resolver (input_data_factories)
\* ------------------------------------------------------------------------

\* a value of a value tree: a plain value, an InputObjectTypeContainer with
\* its items in order, or a list of containers; and a value of the flat
\* data: a plain value, a Value of an annotated filter, a flat map or a list
\* of flat maps
Scalar(v) == [kind |-> "scalar", v |-> v, items |-> <<>>]
Container(items) == [kind |-> "tree", v |-> 0, items |-> items]
ListOf(items) == [kind |-> "list", v |-> 0, items |-> items]
FilterValue(v) == [kind |-> "Value", v |-> v, items |-> <<>>]
Entry(key, value) == [name |-> key, value |-> value]

\* hasattr(input_type, attr) with a value other than None
HasAttr(input_type, attr) == input_type.kind = "tree" /\ Has(input_type.items, attr)
Attr(input_type, attr) == Get(input_type.items, attr).value

\* (key + LOOKUP_SEP + lookup).replace(LOOKUP_SEP + DEFAULT_LOOKUP_EXPR, "")
DataKey(prefix, key) ==
    ReplaceAll(IF prefix # <<>> THEN Join(prefix, key) ELSE key,
               <<LOOKUP_SEP, DEFAULT_LOOKUP_EXPR>>, <<>>)

\* create_search_query_data
create_search_query_data(input_type, key) ==
    IF ~(HasAttr(input_type, <<"vector">>) /\ HasAttr(input_type, <<"query">>))
    THEN [exc |-> TRUE, data |-> <<>>]
    ELSE [exc |-> FALSE,
          data |-> <<Entry(key, FilterValue(Attr(input_type, <<"query">>).v))>>]

RECURSIVE LookupsLoop(_, _, _, _)
\* for lookup, value in input_type.lookups.items()
LookupsLoop(lookups, i, key, data) ==
    IF i > Len(lookups) THEN data
    ELSE LookupsLoop(lookups, i + 1, key,
                     Put(data, Entry(DataKey(key, lookups[i].name),
                                     FilterValue(lookups[i].value.v))))

\* create_search_rank_data
create_search_rank_data(input_type, key) ==
    IF ~(/\ HasAttr(input_type, <<"lookups">>)
         /\ HasAttr(input_type, <<"vector">>)
         /\ HasAttr(input_type, <<"query">>))
    THEN [exc |-> TRUE, data |-> <<>>]
    ELSE [exc |-> FALSE,
          data |-> LookupsLoop(Attr(input_type, <<"lookups">>).items, 1, key, <<>>)]

\* create_trigram_data
create_trigram_data(input_type, key) ==
    IF ~(/\ HasAttr(input_type, <<"kind">>)
         /\ HasAttr(input_type, <<"lookups">>)
         /\ HasAttr(input_type, <<"value">>))
    THEN [exc |-> TRUE, data |-> <<>>]
    ELSE [exc |-> FALSE,
          data |-> LookupsLoop(Attr(input_type, <<"lookups">>).items, 1, key, <<>>)]

\* DATA_FACTORIES, in the order of its keys
DATA_FACTORIES == <<SearchQueryPostfix, SearchRankPostfix, TrigramPostfix>>

\* DATA_FACTORIES[factory_key](value, key, filterset_class)
Factory(factory_key, value, key) ==
    IF factory_key = SearchQueryPostfix THEN create_search_query_data(value, key)
    ELSE IF factory_key = SearchRankPostfix THEN create_search_rank_data(value, key)
    ELSE create_trigram_data(value, key)

\* the factory keys that create_data finds in the key
FactoryHits(key) == {i \in 1..Len(DATA_FACTORIES) : Contains(key, DATA_FACTORIES[i])}

RECURSIVE tree_input_type_to_data(_, _)
RECURSIVE create_data(_, _)
RECURSIVE ItemsLoop(_, _, _, _)
RECURSIVE SubtreesLoop(_, _, _)
RECURSIVE SubtreesLoop_Merged(_, _, _)

\* tree_input_type_to_data: whether it raised, and the flat data
tree_input_type_to_data(tree_input_type, prefix) ==
    ItemsLoop(tree_input_type.items, 1, prefix, <<>>)

\* create_data
create_data(key, value) ==
    IF FactoryHits(key) # {}
    THEN Factory(DATA_FACTORIES[CHOOSE i \in FactoryHits(key) :
                                    \A j \in FactoryHits(key) : i <= j],
                 value, key)
    ELSE IF value.kind = "tree" THEN tree_input_type_to_data(value, key)
    ELSE [exc |-> FALSE, data |-> <<Entry(key, value)>>]

\* the loop over the subtrees merging their data into one flat map
SubtreesLoop_Merged(subtrees, i, maps) ==
    IF i > Len(subtrees) THEN [exc |-> FALSE, data |-> maps]
    ELSE LET r == tree_input_type_to_data(subtrees[i], <<>>)
         IN IF r.exc THEN [exc |-> TRUE, data |-> <<>>]
            ELSE SubtreesLoop_Merged(
                     subtrees, i + 1,
                     <<Container(DictUpdate(IF maps = <<>> THEN <<>> ELSE maps[1].items,
                                            r.data))>>)

\* [tree_input_type_to_data(filterset_class, subtree) for subtree in value]
SubtreesLoop(subtrees, i, maps) ==
    IF i > Len(subtrees) THEN [exc |-> FALSE, data |-> maps]
    ELSE LET r == tree_input_type_to_data(subtrees[i], <<>>)
         IN IF r.exc THEN [exc |-> TRUE, data |-> <<>>]
            ELSE SubtreesLoop(subtrees, i + 1, Append(maps, Container(r.data)))

\* for key, value in tree_input_type.items()
ItemsLoop(items, i, prefix, flat) ==
    IF i > Len(items) THEN [exc |-> FALSE, data |-> flat]
    ELSE LET key == items[i].name
             value == items[i].value
             r == IF key \in {<<"and">>, <<"or">>}
                  THEN SubtreesLoop(value.items, 1, <<>>)
                  ELSE IF key = <<"not">> THEN tree_input_type_to_data(value, <<>>)
                  ELSE create_data(DataKey(prefix, key), value)
         IN IF r.exc THEN [exc |-> TRUE, data |-> <<>>]
            ELSE IF key \in {<<"and">>, <<"or">>}
            THEN ItemsLoop(items, i + 1, prefix, Put(flat, Entry(key, ListOf(r.data))))
            ELSE IF key = <<"not">>
            THEN ItemsLoop(items, i + 1, prefix, Put(flat, Entry(key, Container(r.data))))
            ELSE ItemsLoop(items, i + 1, prefix, DictUpdate(flat, r.data))

\* ------------------------------------------------------------------------
\* A filter-set class, its schema and the value trees submitted to it
\* ------------------------------------------------------------------------

VARIABLES
    baseFilters,      \* filterset_class.base_filters of the class of the schema
    schema,           \* what FilterArgumentsFactory.arguments built for it
    submitted,        \* the value tree resolved last and its flat data
    inputObjectTypes  \* FilterArgumentsFactory.input_object_types

treeVars == <<baseFilters, schema, submitted, inputObjectTypes>>

\* the requests for the arguments of the class that are followed
MaxRequests == 2

\* input_type_prefix of the factories of the class
InputTypePrefix == <<"Node">>

NoSchema ==
    [set |-> FALSE, exc |-> FALSE, trees |-> <<>>, fields |-> <<>>, type |-> ScalarType,
     calls |-> 0, first |-> [exc |-> FALSE, type |-> ScalarType, created |-> 0]]
NoSubmitted ==
    [set |-> FALSE, leaf |-> 0, v |-> 0, tree |-> Container(<<>>), exc |-> FALSE,
     data |-> <<>>]

TreesAtRest ==
    /\ baseFilters = <<>>
    /\ schema = NoSchema
    /\ submitted = NoSubmitted
    /\ inputObjectTypes = NoTypes

\* Meta.fields of the class of the schema: plain fields, a field reached
\* through a relation, a lookup that holds a separator, a field whose name
\* begins with the name of the default lookup (exact_m) or with a postfix of
\* a special filter (trigram_score), and a full-text-search field
TreeMetaOptions ==
    { MetaName,
      MetaSearch,
      <<[name |-> <<"name">>, lookups |-> <<(<<"exact">>)>>],
        [name |-> <<"rel", LOOKUP_SEP, "name">>,
         lookups |-> <<(<<"exact">>), (<<"icontains">>)>>]>>,
      <<[name |-> <<"date">>, lookups |-> <<(<<"year">>), (<<"year", LOOKUP_SEP, "gt">>)>>]>>,
      <<[name |-> <<"name">>, lookups |-> <<(<<"exact">>)>>],
        [name |-> <<"rel", LOOKUP_SEP, "exact", "_m">>,
         lookups |-> <<(<<"exact">>), (<<"icontains">>)>>]>>,
      <<[name |-> <<"trigram", "_score">>, lookups |-> <<(<<"exact">>), (<<"gt">>)>>]>> }

\* the filters declared on the class: none, one under the name django-filter
\* would generate, two under names of their own, and two whose paths are
\* date, year and date, year, gt, in either order
TreeDeclaredOptions ==
    { <<>>,
      <<NewFilter(<<"name">>, <<"name">>, <<"exact">>, "declared")>>,
      <<NewFilter(<<"title">>, <<"name">>, <<"exact">>, "declared")>>,
      <<NewFilter(<<"by_name">>, <<"rel", LOOKUP_SEP, "name">>, <<"exact">>, "declared")>>,
      <<NewFilter(<<"in_year">>, <<"date">>, <<"year">>, "declared"),
        NewFilter(<<"after_year">>, <<"date", LOOKUP_SEP, "year">>, <<"gt">>, "declared")>>,
      <<NewFilter(<<"after_year">>, <<"date", LOOKUP_SEP, "year">>, <<"gt">>, "declared"),
        NewFilter(<<"in_year">>, <<"date">>, <<"year">>, "declared")>> }

\* base_filters of a class without related filters: the filters of
\* BaseFilterSet.get_filters, then the full-text-search filters
RegistryOf(meta, declared) ==
    LET all_filters == BaseGetFilters(OwnFields("regular", meta), declared).val
    IN DictUpdate(all_filters,
                  create_full_text_search_filters(all_filters, OwnFields("fts", meta)).val)

\* the lookups of FloatLookupsInputType
FloatLookups == {<<"exact">>, <<"gt">>, <<"gte">>, <<"lt">>, <<"lte">>}

RECURSIVE Follows(_, _)
\* the path leads through the fields of the input type to a leaf
Follows(fields, path) ==
    /\ path # <<>>
    /\ Has(fields, path[1])
    /\ LET type == Get(fields, path[1]).type
       IN IF type.kind = "scalar" THEN Len(path) = 1
          ELSE IF type.kind = "special"
          THEN /\ Len(path) = 2
               /\ path[2] \in FloatLookups
               /\ (type.name = SearchQueryPostfix => path[2] = <<"exact">>)
          ELSE Follows(type.fields, Tail(path))

\* a value of SearchQueryFilterInputType, SearchRankFilterInputType or
\* TrigramFilterInputType that carries v for the lookup
SpecialInput(name, lookup, v) ==
    IF name = SearchQueryPostfix
    THEN Container(<<Entry(<<"vector">>, Scalar(0)), Entry(<<"query">>, Scalar(v))>>)
    ELSE IF name = SearchRankPostfix
    THEN Container(<<Entry(<<"vector">>, Scalar(0)), Entry(<<"query">>, Scalar(0)),
                     Entry(<<"lookups">>, Container(<<Entry(lookup, Scalar(v))>>))>>)
    ELSE Container(<<Entry(<<"kind">>, Scalar(0)), Entry(<<"value">>, Scalar(0)),
                     Entry(<<"lookups">>, Container(<<Entry(lookup, Scalar(v))>>))>>)

RECURSIVE ValueTree(_, _, _)
\* the value tree that follows the fields of the input type down the path
\* and holds v at its leaf
ValueTree(fields, path, v) ==
    LET type == Get(fields, path[1]).type
    IN IF type.kind = "scalar" THEN Container(<<Entry(path[1], Scalar(v))>>)
       ELSE IF type.kind = "special"
       THEN Container(<<Entry(path[1], SpecialInput(type.name, path[2], v))>>)
       ELSE Container(<<Entry(path[1], ValueTree(type.fields, Tail(path), v))>>)

\* the values submitted
Values == {1, 2}

\* FilterArgumentsFactory.arguments of a factory of the class: whether it
\* raised, the trees of the class, the input type of the argument and the
\* cache; the default of input_object_types.get is computed before the call
arguments(base_filters, prefix, cache) ==
    LET trees == filterset_to_trees(base_filters)
        built == create_filter_input_type(base_filters, trees.trees, prefix, cache)
    IN IF trees.exc
       THEN [exc |-> TRUE, trees |-> <<>>, type |-> ScalarType, cache |-> cache]
       ELSE IF built.exc
       THEN [exc |-> TRUE, trees |-> trees.trees, type |-> ScalarType,
             cache |-> built.cache]
       ELSE [exc |-> FALSE, trees |-> trees.trees,
             type |-> Get(built.cache.types, prefix \o <<"FilterInputType">>).type,
             cache |-> built.cache]

\* a request for the arguments of the class, as filtering_args of a
\* connection field makes it
Arguments ==
    /\ schema.calls < MaxRequests
    /\ \E a \in {arguments(baseFilters, InputTypePrefix, inputObjectTypes)} :
          /\ schema' = [set |-> TRUE, exc |-> a.exc, trees |-> a.trees,
                        fields |-> a.type.fields, type |-> a.type,
                        calls |-> schema.calls + 1,
                        first |-> IF schema.calls = 0
                                  THEN [exc |-> a.exc, type |-> a.type,
                                        created |-> a.cache.created]
                                  ELSE schema.first]
          /\ inputObjectTypes' = a.cache
    /\ UNCHANGED <<baseFilters, submitted, regVars, compVars, reqVars, unitVars>>

\* a request whose filter argument follows the input type down to the leaf
\* of the filter at position i of base_filters: tree_input_type_to_data on
\* the argument
Resolve(i, v) ==
    /\ schema.set
    /\ ~schema.exc
    /\ Follows(schema.fields, PathOf(baseFilters[i]))
    /\ \E tree \in {ValueTree(schema.fields, PathOf(baseFilters[i]), v)} :
         \E r \in {tree_input_type_to_data(tree, <<>>)} :
            submitted' = [set |-> TRUE, leaf |-> i, v |-> v, tree |-> tree,
                          exc |-> r.exc, data |-> r.data]
    /\ UNCHANGED <<baseFilters, schema, inputObjectTypes, regVars, compVars, reqVars,
                   unitVars>>


\* ------------------------------------------------------------------------
\* The tree form of a request and resolve_queryset
\* ------------------------------------------------------------------------

\* Field.clean of the form field of a filter accepts the value: None (below
\* 0), a value of the column (0 or 1) or the Value of an annotated filter
Accepts(node) == node.kind = "Value" \/ node.v <= 1

\* the cleaned value of an accepted value
CleanValue(node) == IF node.kind # "Value" /\ node.v < 0 THEN None ELSE Val(node.v)

\* k not in ("and", "or", "not")
IsLeafKey(entry) == entry.name \notin {<<"and">>, <<"or">>, <<"not">>}

RECURSIVE create_form(_)
\* AdvancedFilterSet.create_form on the flat data of a level: the bound tree
\* form (not_form a sequence of no element for None)
create_form(data) ==
    [data |-> SelectSeq(data, IsLeafKey),
     and_forms |->
        IF Has(data, <<"and">>)
        THEN [i \in 1..Len(Get(data, <<"and">>).value.items) |->
                 create_form(Get(data, <<"and">>).value.items[i].items)]
        ELSE <<>>,
     or_forms |->
        IF Has(data, <<"or">>)
        THEN [i \in 1..Len(Get(data, <<"or">>).value.items) |->
                 create_form(Get(data, <<"or">>).value.items[i].items)]
        ELSE <<>>,
     not_form |->
        IF Has(data, <<"not">>) /\ Get(data, <<"not">>).value.items # <<>>
        THEN <<create_form(Get(data, <<"not">>).value.items)>>
        ELSE <<>>]

\* an entry of an ErrorDict: the errors of a field, or a nested ErrorDict
FieldErrors(name) == [name |-> name, kind |-> "field", sub |-> <<>>]
NestedErrors(name, sub) == [name |-> name, kind |-> "dict", sub |-> sub]

\* Form.errors of the form class of the filterset: one entry per field, in
\* the order of the filters, whose submitted value its field rejects
OwnErrors(data) ==
    LET Rejected(f) == Has(data, f.name) /\ ~Accepts(Get(data, f.name).value)
        bad == SelectSeq(ComposerFilters, Rejected)
    IN [i \in 1..Len(bad) |-> FieldErrors(bad[i].name)]

\* Form.cleaned_data of a valid form: every field, None for the ones the
\* data does not hold
CleanedData(data) ==
    [i \in 1..Len(ComposerFilters) |->
        Item(ComposerFilters[i].name,
             IF Has(data, ComposerFilters[i].name)
             THEN CleanValue(Get(data, ComposerFilters[i].name).value)
             ELSE None)]

\* str(i) of an index
str(i) == <<(<<"0", "1", "2", "3">>)[i + 1]>>

RECURSIVE errors(_)
RECURSIVE ChildErrors(_, _, _, _)

\* for i, form in enumerate(getattr(self, f"{key}_forms")): the ErrorDict of
\* the combinator key
ChildErrors(key, forms, i, acc) ==
    IF i >= Len(forms) THEN acc
    ELSE LET e == errors(forms[i + 1])
         IN ChildErrors(key, forms, i + 1,
                        IF e # <<>>
                        THEN Put(acc, NestedErrors(key \o <<"_">> \o str(i), e))
                        ELSE acc)

\* TreeFormMixin.errors that leaves out the not_form
errors_WithoutNot(fm) ==
    LET self_errors == OwnErrors(fm.data)
        ands == ChildErrors(<<"and">>, fm.and_forms, 0, <<>>)
        ors == ChildErrors(<<"or">>, fm.or_forms, 0, <<>>)
        with_and == IF Len(ands) > 0
                    THEN Put(self_errors, NestedErrors(<<"and">>, ands))
                    ELSE self_errors
    IN IF Len(ors) > 0 THEN Put(with_and, NestedErrors(<<"or">>, ors)) ELSE with_and

\* TreeFormMixin.errors
errors(fm) ==
    LET self_errors == OwnErrors(fm.data)
        ands == ChildErrors(<<"and">>, fm.and_forms, 0, <<>>)
        ors == ChildErrors(<<"or">>, fm.or_forms, 0, <<>>)
        nots == IF fm.not_form # <<>> THEN errors(fm.not_form[1]) ELSE <<>>
        with_and == IF Len(ands) > 0
                    THEN Put(self_errors, NestedErrors(<<"and">>, ands))
                    ELSE self_errors
        with_or == IF Len(ors) > 0
                   THEN Put(with_and, NestedErrors(<<"or">>, ors))
                   ELSE with_and
    IN IF nots # <<>> THEN Put(with_or, NestedErrors(<<"not">>, nots)) ELSE with_or

\* is_valid that looks at the fields of the form itself only
is_valid_OwnFields(fm) == OwnErrors(fm.data) = <<>>

\* Form.is_valid of a bound form
is_valid(fm) == errors(fm) = <<>>

RECURSIVE CleanedForm(_)
\* the valid bound form as the composer reads it
CleanedForm(fm) ==
    TreeForm(CleanedData(fm.data),
             [i \in 1..Len(fm.and_forms) |-> CleanedForm(fm.and_forms[i])],
             [i \in 1..Len(fm.or_forms) |-> CleanedForm(fm.or_forms[i])],
             [i \in 1..Len(fm.not_form) |-> CleanedForm(fm.not_form[i])])

NoOutcome ==
    [set |-> FALSE, filter_arg |-> Container(<<>>), flat_data |-> <<>>, exc |-> <<>>,
     bound |-> create_form(<<>>), errors |-> <<>>]

RequestAtRest == outcome = NoOutcome /\ userSettings = DEFAULT_SETTINGS

\* the filter_counter of the filters of a new filterset instance
NewCounters == [n \in {<<"search_query">>} |-> 0]

\* AdvancedDjangoFilterConnectionField.resolve_queryset for a request with
\* the filter argument filter_arg and the flat arguments flat_data: the tree
\* form of a new filterset over the combined data, then either the queryset
\* of the filterset or a ValidationError with the errors of the form
ResolveQueryset(filter_arg, flat_data) ==
    /\ \E advanced \in {tree_input_type_to_data(filter_arg, <<>>)} :
         \E bound \in {create_form(DictUpdate(advanced.data, flat_data))} :
            IF advanced.exc
            THEN /\ outcome' = [set |-> TRUE, filter_arg |-> filter_arg,
                                flat_data |-> flat_data, exc |-> <<"AttributeError">>,
                                bound |-> create_form(<<>>), errors |-> <<>>]
                 /\ form' = NoForm
                 /\ result' = NoResult
                 /\ filterCounter' = NewCounters
            ELSE IF is_valid(bound)
            THEN \E r \in {get_queryset_proxy_for_form(ComposerFilters, BaseQuerySet,
                                                        CleanedForm(bound), NewCounters)} :
                    /\ \A n \in DOMAIN r.counter : r.counter[n] <= MaxCounter
                    /\ outcome' = [set |-> TRUE, filter_arg |-> filter_arg,
                                   flat_data |-> flat_data, exc |-> <<>>,
                                   bound |-> bound, errors |-> <<>>]
                    /\ form' = CleanedForm(bound)
                    /\ result' = [set |-> TRUE, qs |-> r.qs, q |-> r.q]
                    /\ filterCounter' = r.counter
            ELSE /\ outcome' = [set |-> TRUE, filter_arg |-> filter_arg,
                                flat_data |-> flat_data, exc |-> <<"ValidationError">>,
                                bound |-> bound, errors |-> errors(bound)]
                 /\ form' = NoForm
                 /\ result' = NoResult
                 /\ filterCounter' = NewCounters
    /\ UNCHANGED <<regVars, treeVars, userSettings, unitVars>>

\* the value trees of the requests; no field accepts the value 2
LookupOf(name, v) == Entry(name, Container(<<Entry(<<"exact">>, Scalar(v))>>))
SearchOf(v) == Entry(SearchQueryPostfix, SpecialInput(SearchQueryPostfix, <<"exact">>, v))
LevelA == Container(<<LookupOf(<<"a">>, 1)>>)
LevelB == Container(<<LookupOf(<<"b">>, 0)>>)
LevelS == Container(<<SearchOf(1)>>)
LevelBadA == Container(<<LookupOf(<<"a">>, 2)>>)
LevelBadB == Container(<<LookupOf(<<"b">>, 2)>>)
LevelNone == Container(<<>>)
RequestLeaves ==
    {<<>>, <<LookupOf(<<"b">>, 2)>>, <<SearchOf(1), LookupOf(<<"a">>, 0 - 1)>>}
RequestAnds ==
    {<<>>, <<LevelS, LevelB>>, <<LevelA, LevelBadB>>, <<LevelBadA, LevelS, LevelBadB>>}
RequestOrs == {<<>>, <<LevelB, LevelBadA>>, <<LevelNone, LevelS>>}
RequestNots == {<<>>, <<LevelNone>>, <<LevelS>>, <<LevelBadA>>}
Under(key, levels) ==
    IF levels = <<>> THEN <<>>
    ELSE IF key = NOT_KEY THEN <<Entry(key, levels[1])>>
    ELSE <<Entry(key, ListOf(levels))>>
Requests1 ==
    {Container(l \o Under(AND_KEY, a) \o Under(OR_KEY, o) \o Under(NOT_KEY, n)) :
        l \in RequestLeaves, a \in RequestAnds, o \in RequestOrs, n \in RequestNots}
Nested1 ==
    {Container(Under(NOT_KEY, <<LevelBadB>>)),
     Container(Under(NOT_KEY, <<LevelA>>)),
     Container(Under(AND_KEY, <<LevelS, LevelBadA>>)),
     Container(<<LookupOf(<<"b">>, 1)>> \o Under(OR_KEY, <<LevelA, LevelS>>))}
Requests2 ==
    {Container(Under(NOT_KEY, <<x>>)) : x \in Nested1}
    \cup {Container(Under(OR_KEY, <<LevelA, x>>)) : x \in Nested1}
    \cup {Container(Under(AND_KEY, <<x, LevelBadB>>)) : x \in Nested1}
Requests == Requests1 \cup Requests2
FlatArgs == {<<>>, <<Entry(<<"b">>, Scalar(1))>>}

\* ------------------------------------------------------------------------
\* The call stack of a thread
\* ------------------------------------------------------------------------
Threads == {1, 2}

NoRet == [kind |-> "none", val |-> <<>>]
NoCall == [status |-> "none", cls |-> "", reent |-> FALSE, ran |-> FALSE,
           first |-> FALSE, warned |-> 0, val |-> <<>>]
NoReg == [set |-> FALSE, val |-> <<>>]
NoRead == [set |-> FALSE, cls |-> "", i |-> 0, again |-> FALSE, raised |-> FALSE,
           isNone |-> FALSE, val |-> ""]

\* the read rd of the property of the i-th related filter of c, as t saw it;
\* again: _filterset was no longer the value the filter was constructed with
Observe(t, c, i, rd) ==
    [lastRead EXCEPT ![t] =
        [set |-> TRUE, cls |-> c, i |-> i,
         again |-> fsRef[c][i] # cfgRelated[c][i].filterset,
         raised |-> rd.raised, isNone |-> rd.isNone, val |-> rd.cls]]

\* a frame of get_filters (fn = "get_filters") or of _get_fields
Frame(fn, cls, pc) ==
    [fn |-> fn, cls |-> cls, pc |-> pc, i |-> 1, all |-> <<>>, pred |-> "regular",
     top |-> FALSE, strict |-> FALSE, reent |-> FALSE, ran |-> FALSE,
     first |-> FALSE, warned |-> 0]

Depth(t) == Len(stack[t])
Top(t) == stack[t][Len(stack[t])]
Idle(t) == stack[t] = <<>>
Running(t, fn, pcs) ==
    /\ t \in threads
    /\ ~Idle(t)
    /\ ret[t].kind # "exc"
    /\ Top(t).fn = fn
    /\ Top(t).pc \in pcs

SetTop(t, f) == [stack EXCEPT ![t] = [@ EXCEPT ![Len(@)] = f]]
PushOn(t, caller, callee) ==
    [stack EXCEPT ![t] = Append([@ EXCEPT ![Len(@)] = caller], callee)]
Popped(t) == [stack EXCEPT ![t] = SubSeq(@, 1, Len(@) - 1)]

Raise(t, what) == [ret EXCEPT ![t] = [kind |-> "exc", val |-> <<what>>]]

cfgVars == <<cfgRelated, cfgMeta, hasModel, isPostgresql, hasTrigram, threads, quota,
             compVars, treeVars, reqVars, unitVars>>
roVars == <<cfgVars, calls>>
tmpVars == <<metaCur, declHidden>>

\* what the finished outermost call leaves for the caller of get_filters
Finish(t, f, status, v) ==
    /\ done' = [done EXCEPT ![t] =
                  [status |-> status, cls |-> f.cls, reent |-> f.reent, ran |-> f.ran,
                   first |-> f.first, warned |-> f.warned, val |-> v]]
    /\ lastReg' = IF status = "ok" /\ ~f.reent
                  THEN [lastReg EXCEPT ![f.cls] = [set |-> TRUE, val |-> v]]
                  ELSE lastReg

\* the positions of get_filters inside its try statement
TryPcs == {"base", "base_ret", "expand", "expand_ret", "auto_ret", "fts", "fts_ret"}

\* get_filters with the early return of the re-entrant call inside the try
\* statement
InTry_Everywhere(f) == f.fn = "get_filters"

\* get_filters without the finally clause
InTry_Never(f) == FALSE

\* get_filters with the full-text synthesis after the try statement
InTry_BeforeFts(f) == f.fn = "get_filters" /\ f.pc \in TryPcs \ {"fts", "fts_ret"}

\* the frame is left from inside the try statement
InTry(f) == f.fn = "get_filters" /\ f.pc \in TryPcs

\* finally: cls._is_expanding_filters = False
FlagOnExit(f) ==
    IF InTry(f) THEN [isExpanding EXCEPT ![f.cls] = FALSE] ELSE isExpanding

\* `return v` from the get_filters frame f on top of the stack of t
ReturnFilters(t, f, v) ==
    /\ stack' = Popped(t)
    /\ isExpanding' = FlagOnExit(f)
    /\ IF Depth(t) = 1
       THEN ret' = [ret EXCEPT ![t] = NoRet] /\ Finish(t, f, "ok", v)
       ELSE /\ ret' = [ret EXCEPT ![t] = [kind |-> "filters", val |-> v]]
            /\ UNCHANGED <<done, lastReg>>

\* `return v` from the _get_fields frame on top of the stack of t
ReturnFields(t, v) ==
    /\ stack' = Popped(t)
    /\ ret' = [ret EXCEPT ![t] = [kind |-> "fields", val |-> v]]

\* ------------------------------------------------------------------------
\* AdvancedFilterSet.get_filters
\* ------------------------------------------------------------------------

\* a caller calls cls.get_filters(), with warnings raised as errors or not
Call(t, c, strict) ==
    /\ t \in threads
    /\ Idle(t)
    /\ calls[t] < quota
    /\ stack' = [stack EXCEPT ![t] =
                   <<[Frame("get_filters", c, "entry") EXCEPT
                        !.strict = strict, !.first = ~lastReg[c].set]>>]
    /\ ret' = [ret EXCEPT ![t] = NoRet]
    /\ calls' = [calls EXCEPT ![t] = @ + 1]
    /\ UNCHANGED <<cfgVars, tmpVars, fsRef, expandedFilters, isExpanding,
                   visited, done, lastReg, lastRead>>

\* the cache test and the re-entrancy test
GFEntry(t) ==
    /\ Running(t, "get_filters", {"entry"})
    /\ LET f == Top(t) IN
       IF expandedFilters[f.cls].set
       THEN ReturnFilters(t, f, expandedFilters[f.cls].val)
       ELSE /\ stack' = SetTop(t, IF isExpanding[f.cls]
                                  THEN [f EXCEPT !.pc = "reent", !.reent = TRUE]
                                  ELSE [f EXCEPT !.pc = "setflag"])
            /\ UNCHANGED <<ret, done, lastReg, isExpanding>>
    /\ UNCHANGED <<roVars, tmpVars, fsRef, expandedFilters, visited, lastRead>>

\* cls._is_expanding_filters = True
GFSetFlag(t) ==
    /\ Running(t, "get_filters", {"setflag"})
    /\ isExpanding' = [isExpanding EXCEPT ![Top(t).cls] = TRUE]
    /\ stack' = SetTop(t, [Top(t) EXCEPT !.pc = "base"])
    /\ UNCHANGED <<roVars, tmpVars, fsRef, expandedFilters, visited, ret, done, lastReg,
                   lastRead>>

\* super().get_filters(): the declared filters of a class without a model,
\* otherwise the filters generated from cls.get_fields()
GFBase(t) ==
    /\ Running(t, "get_filters", {"base", "reent"})
    /\ LET f == Top(t) IN
       IF ~hasModel[f.cls]
       THEN IF f.pc = "reent"
            THEN ReturnFilters(t, f, DeclaredFilters(f.cls))
            ELSE /\ stack' = SetTop(t, [f EXCEPT !.pc = "expand",
                                                 !.all = DeclaredFilters(f.cls)])
                 /\ UNCHANGED <<ret, done, lastReg, isExpanding>>
       ELSE /\ Depth(t) < MaxDepth
            /\ stack' = PushOn(t, [f EXCEPT !.pc = IF f.pc = "reent" THEN "reent_ret"
                                                   ELSE "base_ret"],
                               [Frame("_get_fields", f.cls, "enter") EXCEPT !.top = TRUE])
            /\ UNCHANGED <<ret, done, lastReg, isExpanding>>
    /\ UNCHANGED <<roVars, tmpVars, fsRef, expandedFilters, visited, lastRead>>

\* step 2 of get_filters: the next related filter is expanded
GFExpand(t) ==
    /\ Running(t, "get_filters", {"expand"})
    /\ LET f == Top(t)
           decl == cfgRelated[f.cls][f.i]
           rd == ReadFilterset(fsRef[f.cls][f.i], f.cls)
       IN
       IF ~hasModel[f.cls] \/ f.i > Len(cfgRelated[f.cls])
       THEN /\ stack' = SetTop(t, [f EXCEPT !.pc = "fts", !.ran = TRUE])
            /\ UNCHANGED <<ret, fsRef, tmpVars, lastRead>>
       ELSE IF decl.kind = "related"
       THEN \* expand_related_filter
            /\ fsRef' = [fsRef EXCEPT ![f.cls][f.i] = rd.ref]
            /\ lastRead' = Observe(t, f.cls, f.i, rd)
            /\ UNCHANGED tmpVars
            /\ IF rd.raised
               THEN ret' = Raise(t, "ImportError") /\ UNCHANGED stack
               ELSE IF rd.isNone
               THEN /\ stack' = SetTop(t, [f EXCEPT !.i = f.i + 1, !.ran = TRUE])
                    /\ UNCHANGED ret
               ELSE /\ Depth(t) < MaxDepth
                    /\ stack' = PushOn(t, [f EXCEPT !.pc = "expand_ret", !.ran = TRUE],
                                       [Frame("get_filters", rd.cls, "entry") EXCEPT
                                            !.strict = f.strict])
                    /\ UNCHANGED ret
       ELSE \* expand_auto_filter
            /\ Depth(t) < MaxDepth
            /\ metaCur' = [metaCur EXCEPT ![f.cls] =
                             <<[name |-> decl.field_name, lookups |-> decl.lookups]>>]
            /\ declHidden' = [declHidden EXCEPT ![f.cls] = TRUE]
            /\ stack' = PushOn(t, [f EXCEPT !.pc = "auto_ret", !.ran = TRUE],
                               [Frame("_get_fields", f.cls, "enter") EXCEPT !.top = TRUE])
            /\ UNCHANGED <<ret, fsRef, lastRead>>
    /\ UNCHANGED <<roVars, expandedFilters, isExpanding, visited, done, lastReg>>

\* step 3 of get_filters asks for the full-text-search fields
GFFts(t) ==
    /\ Running(t, "get_filters", {"fts"})
    /\ Depth(t) < MaxDepth
    /\ stack' = PushOn(t, [Top(t) EXCEPT !.pc = "fts_ret"],
                       [Frame("_get_fields", Top(t).cls, "enter") EXCEPT
                            !.top = TRUE, !.pred = "fts"])
    /\ UNCHANGED <<roVars, tmpVars, fsRef, expandedFilters, isExpanding, visited,
                   ret, done, lastReg, lastRead>>

\* get_filters goes on with the value a callee returned
GFResume(t) ==
    /\ Running(t, "get_filters", {"base_ret", "reent_ret", "expand_ret", "auto_ret", "fts_ret"})
    /\ ret[t].kind \in {"fields", "filters"}
    /\ LET f == Top(t)
           v == ret[t].val
           decl == cfgRelated[f.cls][f.i]
           base == BaseGetFilters(v, DeclaredFilters(f.cls))
           fts == create_full_text_search_filters(f.all, v)
       IN
       CASE f.pc = "base_ret" ->
              /\ IF base.raised
                 THEN ret' = Raise(t, base.exc) /\ UNCHANGED stack
                 ELSE /\ stack' = SetTop(t, [f EXCEPT !.pc = "expand", !.all = base.val])
                      /\ ret' = [ret EXCEPT ![t] = NoRet]
              /\ UNCHANGED <<tmpVars, isExpanding, done, lastReg>>
         [] f.pc = "reent_ret" ->
              /\ IF base.raised
                 THEN /\ ret' = Raise(t, base.exc)
                      /\ UNCHANGED <<stack, done, lastReg, isExpanding>>
                 ELSE ReturnFilters(t, f, base.val)
              /\ UNCHANGED tmpVars
         [] f.pc = "expand_ret" ->
              /\ stack' = SetTop(t, [f EXCEPT !.pc = "expand", !.i = f.i + 1,
                                       !.all = MergeExpanded(f.all, RebaseAll(<<>>, decl, v))])
              /\ ret' = [ret EXCEPT ![t] = NoRet]
              /\ UNCHANGED <<tmpVars, isExpanding, done, lastReg>>
         [] f.pc = "auto_ret" ->
              \* `except Exception: pass`: an exception of the generation is
              \* swallowed; _meta and declared_filters are restored
              /\ stack' = SetTop(t, [f EXCEPT !.pc = "expand", !.i = f.i + 1,
                                       !.all = MergeExpanded(f.all,
                                           IF base.raised THEN <<>>
                                           ELSE AutoExpanded(<<>>, decl, base.val,
                                                             OrigDeclared(f.cls)))])
              /\ ret' = [ret EXCEPT ![t] = NoRet]
              /\ metaCur' = [metaCur EXCEPT ![f.cls] = cfgMeta[f.cls]]
              /\ declHidden' = [declHidden EXCEPT ![f.cls] = FALSE]
              /\ UNCHANGED <<isExpanding, done, lastReg>>
         [] f.pc = "fts_ret" ->
              IF fts.warned > 0 /\ f.strict
              THEN /\ ret' = Raise(t, "Warning")
                   /\ UNCHANGED <<stack, tmpVars, isExpanding, done, lastReg>>
              ELSE \* return all_filters; finally: the flag is reset
                   /\ ReturnFilters(t, [f EXCEPT !.warned = fts.warned],
                                    DictUpdate(f.all, fts.val))
                   /\ UNCHANGED tmpVars
    /\ UNCHANGED <<roVars, fsRef, expandedFilters, visited, lastRead>>


\* ------------------------------------------------------------------------
\* AdvancedFilterSet._get_fields
\* ------------------------------------------------------------------------

\* _get_fields without its recursion guard
AlreadyVisited_Never(cls, vis) == FALSE

\* `if cls in visited`
AlreadyVisited(cls, vis) == cls \in vis

\* entry of _get_fields: a fresh visited set for the outermost call, the
\* recursion guard, the class without a model
FieldsEnter(t) ==
    /\ Running(t, "_get_fields", {"enter"})
    /\ LET f == Top(t)
           vis == IF f.top THEN {} ELSE visited[t]
       IN
       IF AlreadyVisited(f.cls, vis)
       THEN ReturnFields(t, <<>>) /\ UNCHANGED visited
       ELSE /\ visited' = [visited EXCEPT ![t] = vis \cup {f.cls}]
            /\ IF ~hasModel[f.cls]
               THEN ReturnFields(t, <<>>)
               ELSE stack' = SetTop(t, [f EXCEPT !.pc = "loop"]) /\ UNCHANGED ret
    /\ UNCHANGED <<roVars, tmpVars, fsRef, expandedFilters, isExpanding, done, lastReg,
                   lastRead>>

\* the loop over related_filters, then the fields of Meta.fields
FieldsLoop(t) ==
    /\ Running(t, "_get_fields", {"loop"})
    /\ LET f == Top(t)
           rd == ReadFilterset(fsRef[f.cls][f.i], f.cls)
       IN
       IF f.i > Len(cfgRelated[f.cls])
       THEN /\ ReturnFields(t, DictFromList(f.all \o OwnFields(f.pred, metaCur[f.cls])))
            /\ UNCHANGED <<fsRef, lastRead>>
       ELSE /\ fsRef' = [fsRef EXCEPT ![f.cls][f.i] = rd.ref]
            /\ lastRead' = Observe(t, f.cls, f.i, rd)
            /\ IF rd.raised
               THEN ret' = Raise(t, "ImportError") /\ UNCHANGED stack
               ELSE IF rd.isNone
               THEN stack' = SetTop(t, [f EXCEPT !.i = f.i + 1]) /\ UNCHANGED ret
               ELSE /\ Depth(t) < MaxDepth
                    /\ stack' = PushOn(t, [f EXCEPT !.pc = "ret"],
                                       [Frame("_get_fields", rd.cls, "enter") EXCEPT
                                            !.pred = f.pred])
                    /\ UNCHANGED ret
    /\ UNCHANGED <<roVars, tmpVars, expandedFilters, isExpanding, visited, done, lastReg>>

\* the fields of the related filter-set are taken over under the prefix
FieldsResume(t) ==
    /\ Running(t, "_get_fields", {"ret"})
    /\ ret[t].kind = "fields"
    /\ LET f == Top(t) IN
       stack' = SetTop(t, [f EXCEPT !.pc = "loop", !.i = f.i + 1,
                             !.all = f.all \o PrefixFields(cfgRelated[f.cls][f.i].name,
                                                          ret[t].val)])
    /\ ret' = [ret EXCEPT ![t] = NoRet]
    /\ UNCHANGED <<roVars, tmpVars, fsRef, expandedFilters, isExpanding, visited,
                   done, lastReg, lastRead>>

\* an exception leaves the innermost frame: expand_auto_filter swallows it,
\* the finally clause of get_filters resets the flag, anything else passes it on
Unwind(t) ==
    /\ t \in threads
    /\ ~Idle(t)
    /\ ret[t].kind = "exc"
    /\ LET f == Top(t) IN
       IF f.fn = "get_filters" /\ f.pc = "auto_ret"
       THEN /\ stack' = SetTop(t, [f EXCEPT !.pc = "expand", !.i = f.i + 1])
            /\ ret' = [ret EXCEPT ![t] = NoRet]
            /\ metaCur' = [metaCur EXCEPT ![f.cls] = cfgMeta[f.cls]]
            /\ declHidden' = [declHidden EXCEPT ![f.cls] = FALSE]
            /\ UNCHANGED <<isExpanding, done, lastReg>>
       ELSE /\ stack' = Popped(t)
            /\ isExpanding' = FlagOnExit(f)
            /\ IF Depth(t) = 1
               THEN ret' = [ret EXCEPT ![t] = NoRet] /\ Finish(t, f, "exc", <<>>)
               ELSE UNCHANGED <<ret, done, lastReg>>
            /\ UNCHANGED tmpVars
    /\ UNCHANGED <<roVars, fsRef, expandedFilters, visited, lastRead>>

\* ------------------------------------------------------------------------
\* The program: classes as declared, no call made yet
\* ------------------------------------------------------------------------
RelatedKinds == {"related", "auto"}

\* an AutoFilter on a field the model does not have, and one with a lookup
\* the field does not have
AutoMistakes == {"auto_nofield", "auto_nolookup"}

\* what the class A declares
RelOptionsA ==
    {<<>>} \cup {<<[kind |-> k, ref |-> r]>> :
                   k \in RelatedKinds,
                   r \in RefsTo("A") \cup RefsTo("B") \cup {BadRef}}
           \cup {<<[kind |-> k, ref |-> ClassRef("B")]>> : k \in AutoMistakes}
MetaOptionsA == {MetaName, MetaRel, MetaSearch, MetaUndefined}

\* what the class B, the target of A's relationship, declares
RelOptionsB == {<<>>} \cup {<<[kind |-> "related", ref |-> r]>> : r \in RefsTo("A")}
MetaOptionsB == {MetaName, MetaSearch}

DeclsOf(opt) ==
    [i \in 1..Len(opt) |->
        IF opt[i].kind = "auto_nofield"
        THEN [RelatedDecl("auto", <<(<<"exact">>)>>, opt[i].ref) EXCEPT
                 !.field_name = <<"nosuch">>]
        ELSE IF opt[i].kind = "auto_nolookup"
        THEN RelatedDecl("auto", <<(<<"nolookup">>)>>, opt[i].ref)
        ELSE
        RelatedDecl(opt[i].kind,
                    IF opt[i].kind = "auto" THEN <<(<<"icontains">>)>> ELSE <<>>,
                    opt[i].ref)]
RefsOf(opt) == [i \in 1..Len(opt) |-> opt[i].ref]

InitRegistry(ths, n, relA, relB, metaA, metaB) ==
    /\ threads = ths
    /\ quota = n
    /\ \E ra \in relA, rb \in relB :
          /\ cfgRelated = [c \in FilterSets |-> IF c = "A" THEN DeclsOf(ra) ELSE DeclsOf(rb)]
          /\ fsRef = [c \in FilterSets |-> IF c = "A" THEN RefsOf(ra) ELSE RefsOf(rb)]
    /\ \E ma \in metaA, mb \in metaB, modelB \in BOOLEAN :
          /\ hasModel = [c \in FilterSets |-> c = "A" \/ modelB]
          /\ cfgMeta = [c \in FilterSets |->
                          IF c = "A" THEN ma ELSE IF modelB THEN mb ELSE <<>>]
    /\ metaCur = cfgMeta
    /\ isPostgresql \in BOOLEAN
    /\ hasTrigram \in {h \in BOOLEAN : h => isPostgresql}
    /\ declHidden = [c \in FilterSets |-> FALSE]
    /\ expandedFilters = [c \in FilterSets |-> NoReg]
    /\ isExpanding = [c \in FilterSets |-> FALSE]
    /\ stack = [t \in Threads |-> <<>>]
    /\ ret = [t \in Threads |-> NoRet]
    /\ visited = [t \in Threads |-> {}]
    /\ done = [t \in Threads |-> NoCall]
    /\ lastReg = [c \in FilterSets |-> NoReg]
    /\ lastRead = [t \in Threads |-> NoRead]
    /\ calls = [t \in Threads |-> 0]
    /\ ComposerAtRest
    /\ TreesAtRest
    /\ RequestAtRest
    /\ UnitsAtRest

NextRegistry ==
    \E t \in Threads :
        \/ \E c \in FilterSets, strict \in BOOLEAN : Call(t, c, strict)
        \/ GFEntry(t)
        \/ GFSetFlag(t)
        \/ GFBase(t)
        \/ GFExpand(t)
        \/ GFFts(t)
        \/ GFResume(t)
        \/ FieldsEnter(t)
        \/ FieldsLoop(t)
        \/ FieldsResume(t)
        \/ Unwind(t)

vars == <<regVars, compVars, treeVars, reqVars, unitVars>>

\* one thread, every declaration
Init == InitRegistry({1}, MaxCalls, RelOptionsA, RelOptionsB, MetaOptionsA, MetaOptionsB)
Next == NextRegistry
Spec == Init /\ [][Next]_vars

\* the declarations form a cycle: A -> A, or A -> B -> A
Cyclic ==
    /\ cfgRelated["A"] # <<>>
    /\ \/ TargetOf(cfgRelated["A"][1].filterset) = "A"
       \/ /\ TargetOf(cfgRelated["A"][1].filterset) = "B"
          /\ cfgRelated["B"] # <<>>

\* a thread that is inside a call goes on running
Step(t) ==
    \/ GFEntry(t) \/ GFSetFlag(t) \/ GFBase(t) \/ GFExpand(t) \/ GFFts(t)
    \/ GFResume(t) \/ FieldsEnter(t) \/ FieldsLoop(t) \/ FieldsResume(t)
    \/ Unwind(t)

\* one thread, cyclic declarations, calls that are scheduled until they end
InitCycle ==
    /\ InitRegistry({1}, MaxCallsCycle, RelOptionsA, RelOptionsB,
                    {MetaName, MetaUndefined}, {MetaName})
    /\ Cyclic
SpecCycle == InitCycle /\ [][Next]_vars /\ \A t \in Threads : WF_vars(Step(t))

\* two threads of one process share the classes
RelOptionsMT ==
    {<<[kind |-> k, ref |-> r]>> : k \in RelatedKinds, r \in {ClassRef("B"), StrRef(<<"B">>)}}
InitMT == InitRegistry({1, 2}, MaxCallsMT, RelOptionsMT, {<<>>}, {MetaName, MetaUndefined}, {MetaName})
SpecMT == InitMT /\ [][Next]_vars

\* the composer of one filterset instance, no registry being built
\* no registry is being built and no thread runs
RegistryAtRest ==
    /\ cfgRelated = [c \in FilterSets |-> <<>>]
    /\ fsRef = [c \in FilterSets |-> <<>>]
    /\ cfgMeta = [c \in FilterSets |-> MetaName]
    /\ metaCur = cfgMeta
    /\ hasModel = [c \in FilterSets |-> TRUE]
    /\ threads = {}
    /\ quota = 0
    /\ declHidden = [c \in FilterSets |-> FALSE]
    /\ expandedFilters = [c \in FilterSets |-> NoReg]
    /\ isExpanding = [c \in FilterSets |-> FALSE]
    /\ stack = [t \in Threads |-> <<>>]
    /\ ret = [t \in Threads |-> NoRet]
    /\ visited = [t \in Threads |-> {}]
    /\ done = [t \in Threads |-> NoCall]
    /\ lastReg = [c \in FilterSets |-> NoReg]
    /\ lastRead = [t \in Threads |-> NoRead]
    /\ calls = [t \in Threads |-> 0]

InitCompose ==
    /\ ComposerAtRest
    /\ RegistryAtRest
    /\ UnitsAtRest
    /\ isPostgresql = TRUE
    /\ hasTrigram = TRUE
    /\ TreesAtRest
    /\ RequestAtRest
NextCompose ==
    \E fm \in Forms : FilterQueryset(fm) /\ UNCHANGED <<regVars, treeVars, reqVars, unitVars>>
SpecCompose == InitCompose /\ [][NextCompose]_vars

\* the schema of one filter-set class and the requests it resolves
InitTrees ==
    /\ ComposerAtRest
    /\ RegistryAtRest
    /\ UnitsAtRest
    /\ isPostgresql \in BOOLEAN
    /\ hasTrigram \in {h \in BOOLEAN : h => isPostgresql}
    /\ \E meta \in TreeMetaOptions, declared \in TreeDeclaredOptions :
          baseFilters = RegistryOf(meta, declared)
    /\ schema = NoSchema
    /\ submitted = NoSubmitted
    /\ inputObjectTypes = NoTypes
    /\ RequestAtRest
NextTrees ==
    \/ Arguments
    \/ \E i \in 1..Len(baseFilters), v \in Values : Resolve(i, v)
SpecTrees == InitTrees /\ [][NextTrees]_vars

\* the requests a connection field resolves
InitRequest == InitCompose
NextRequest == \E filter_arg \in Requests, flat_data \in FlatArgs : ResolveQueryset(filter_arg, flat_data)
SpecRequest == InitRequest /\ [][NextRequest]_vars

\* the requests of a project with settings of its own: their filter
\* arguments hold the combinator keys of the schema
InitSettings ==
    /\ ComposerAtRest
    /\ RegistryAtRest
    /\ UnitsAtRest
    /\ isPostgresql = TRUE
    /\ hasTrigram = TRUE
    /\ TreesAtRest
    /\ outcome = NoOutcome
    /\ userSettings \in SettingsOptions
SettingsRequests ==
    Requests2 \cup {r \in Requests1 : r.items = <<>> \/ r.items[1].name \in {AND_KEY, OR_KEY, NOT_KEY}}
NextSettings ==
    \E filter_arg \in SettingsRequests, flat_data \in FlatArgs :
       ResolveQueryset(filter_arg, flat_data)
SpecSettings == InitSettings /\ [][NextSettings]_vars

\* a proxy and the calls made on it and on the proxies made from it
InitProxy ==
    /\ ComposerAtRest
    /\ RegistryAtRest
    /\ isPostgresql = TRUE
    /\ hasTrigram = TRUE
    /\ TreesAtRest
    /\ RequestAtRest
    /\ LookupsAtRest
    /\ FindAtRest
    /\ ProxyInit
NextProxy ==
    \/ \E i \in 1..2, arg \in ProxyArgs :
          ProxyFilter(i, arg) /\ UNCHANGED <<regVars, compVars, treeVars, reqVars>>
    \/ \E i \in 1..2, arg \in ProxyArgs :
          ProxyExclude(i, arg) /\ UNCHANGED <<regVars, compVars, treeVars, reqVars>>
    \/ \E i \in 1..2 :
          ProxyOther(i, <<"rank">>) /\ UNCHANGED <<regVars, compVars, treeVars, reqVars>>
SpecProxy == InitProxy /\ [][NextProxy]_vars

\* the lookups of a field of a project with transforms of its own
InitLookups ==
    /\ ComposerAtRest
    /\ RegistryAtRest
    /\ isPostgresql = TRUE
    /\ hasTrigram = TRUE
    /\ TreesAtRest
    /\ RequestAtRest
    /\ ProxyAtRest
    /\ FindAtRest
    /\ lkGraph \in Graphs
    /\ lkStack = <<>>
    /\ lkResult = NoLookups
NextLookups ==
    \/ \E ft \in FieldTypes :
          LookupsForField(ft) /\ UNCHANGED <<regVars, compVars, treeVars, reqVars>>
    \/ LookupsItem /\ UNCHANGED <<regVars, compVars, treeVars, reqVars>>
    \/ LookupsReturn /\ UNCHANGED <<regVars, compVars, treeVars, reqVars>>
SpecLookups == InitLookups /\ [][NextLookups]_vars
\* the interpreter goes on running the enumeration
LookupsStep ==
    (LookupsItem \/ LookupsReturn) /\ UNCHANGED <<regVars, compVars, treeVars, reqVars>>
SpecLookupsFair == SpecLookups /\ WF_vars(LookupsStep)

\* an instance with filters of its own and the data keys looked up on it
InitFind ==
    /\ ComposerAtRest
    /\ RegistryAtRest
    /\ isPostgresql = TRUE
    /\ hasTrigram = TRUE
    /\ TreesAtRest
    /\ RequestAtRest
    /\ ProxyAtRest
    /\ LookupsAtRest
    /\ ffFilters \in FindRegistries
    /\ ffCall = NoFind
NextFind ==
    \E data_key \in FindKeys :
        FindFilter(data_key) /\ UNCHANGED <<regVars, compVars, treeVars, reqVars>>
SpecFind == InitFind /\ [][NextFind]_vars

\* ------------------------------------------------------------------------
\* Properties of the registry
\* ------------------------------------------------------------------------

\* a get_filters frame of class c is on the stack of some thread
InProgress(c) ==
    \E t \in Threads : \E k \in 1..Len(stack[t]) :
        stack[t][k].fn = "get_filters" /\ stack[t][k].cls = c

\* the call t completed last was a full build that returned
Built(t) == done[t].status = "ok" /\ ~done[t].reent

\* the related filter-declarations of c whose target is a class without
\* related filters of its own, other than c, with a registry already built
ExpandableDecls(c) ==
    {i \in 1..Len(cfgRelated[c]) :
        LET b == TargetOf(cfgRelated[c][i].filterset) IN
        /\ cfgRelated[c][i].kind = "related"
        /\ b \in FilterSets \ {c}
        /\ cfgRelated[b] = <<>>
        /\ lastReg[b].set}

\* C3: the registry a full build of A (a class with a model) returns holds,
\* for every entry (n, p) of the registry of the target B of a related filter
\* r over relationship f, an entry r__n whose field path is f__(field path
\* of p) and whose lookup is the lookup of p
C3_RelatedExpansion ==
    \A t \in Threads :
        (Built(t) /\ hasModel[done[t].cls]) =>
            \A i \in ExpandableDecls(done[t].cls) :
                LET decl == cfgRelated[done[t].cls][i]
                    target == lastReg[TargetOf(decl.filterset)].val
                IN \A k \in 1..Len(target) :
                      LET n == Join(decl.name, target[k].name) IN
                      /\ Has(done[t].val, n)
                      /\ Get(done[t].val, n).field_name =
                             Join(decl.field_name, target[k].field_name)
                      /\ Get(done[t].val, n).lookup_expr = target[k].lookup_expr

\* the _get_fields frames of t that are past the recursion guard
Traversing(t) ==
    {k \in 1..Len(stack[t]) : stack[t][k].fn = "_get_fields" /\ stack[t][k].pc # "enter"}

\* the get_filters frames of t that are building a registry
Building(t) ==
    {k \in 1..Len(stack[t]) : InTry(stack[t][k])}

\* no class is traversed, or built, inside its own traversal or build
NoRepeat(t) ==
    /\ \A j, k \in Traversing(t) : stack[t][j].cls = stack[t][k].cls => j = k
    /\ \A j, k \in Building(t) : stack[t][j].cls = stack[t][k].cls => j = k

\* C4: with cyclic declarations no class is visited again inside its own
\* traversal, and every call of get_filters (with the _get_fields calls it
\* makes) comes to an end
C4_CyclesTerminate ==
    /\ [](\A t \in Threads : NoRepeat(t))
    /\ \A t \in Threads : (~Idle(t)) ~> Idle(t)

\* the recursion guard has just answered {} for a class of the cycle
C4_GuardHit ==
    \E t \in Threads :
        /\ ~Idle(t)
        /\ Top(t).fn = "_get_fields" /\ Top(t).pc = "ret" /\ Top(t).pred = "regular"
        /\ ret[t] = [kind |-> "fields", val |-> <<>>]
        /\ LET target == TargetOf(cfgRelated[Top(t).cls][Top(t).i].filterset) IN
           /\ target \in visited[t]
           /\ hasModel[target]
           /\ \E k \in Traversing(t) : k < Len(stack[t]) /\ stack[t][k].cls = target

\* C5: a read of the filterset property of a related filter whose argument
\* names a class (as the class object, a dotted path, or a name of the
\* declaring module) yields that class, on the first read and on every later
\* one
C5_FiltersetProperty ==
    \A t \in Threads :
        lastRead[t].set =>
            LET target == TargetOf(cfgRelated[lastRead[t].cls][lastRead[t].i].filterset)
            IN target \in FilterSets =>
                  /\ ~lastRead[t].raised
                  /\ ~lastRead[t].isNone
                  /\ lastRead[t].val = target

\* C7: a full build that returns leaves the registry cached on the class,
\* and a call made when the class has already been built runs no expansion
\* and no synthesis
C7_BuiltOnce ==
    \A t \in Threads :
        Built(t) =>
            /\ expandedFilters[done[t].cls].set
            /\ ~done[t].first => ~done[t].ran

\* the innermost get_filters frame of t
CurrentCall(t) ==
    stack[t][CHOOSE k \in 1..Len(stack[t]) :
                /\ stack[t][k].fn = "get_filters"
                /\ \A j \in (k + 1)..Len(stack[t]) : stack[t][j].fn # "get_filters"]

\* C8: a call that finds the flag set returns only declared and
\* Meta-generated filters, runs no expansion and no synthesis, and no step
\* of it changes the flag
C8_ReentrantCall ==
    /\ [](\A t \in Threads :
            (done[t].status = "ok" /\ done[t].reent) =>
                /\ ~done[t].ran
                /\ \A k \in 1..Len(done[t].val) :
                      done[t].val[k].src \in {"declared", "meta"})
    /\ [][\A t \in Threads :
            (~Idle(t) /\ CurrentCall(t).reent /\ stack'[t] # stack[t])
                => isExpanding' = isExpanding]_vars

\* a call found the flag set by the build of another thread and returned
\* while that build was still going on
C8_ReentrantReturned ==
    \E t \in Threads :
        /\ done[t].status = "ok" /\ done[t].reent
        /\ done[t].val # <<>>
        /\ isExpanding[done[t].cls]
        /\ InProgress(done[t].cls)

\* C9: whenever no get_filters call on a class is in progress, the flag of
\* the class is false
C9_FlagReset == \A c \in FilterSets : ~InProgress(c) => ~isExpanding[c]

\* a build was left by an exception (of the base generation, of an
\* expansion, or of the synthesis) and nothing is in progress
C9_LeftByException ==
    \E t \in Threads :
        /\ done[t].status = "exc" /\ ~done[t].reent
        /\ ~InProgress(done[t].cls)
        /\ ~isExpanding[done[t].cls]

\* C10: merging the expanded entries of a related filter into the registry
\* leaves every entry whose key was already present as it was
C10_MergeKeepsPresent ==
    [][\A t \in Threads :
          (/\ ~Idle(t)
           /\ Top(t).fn = "get_filters" /\ Top(t).pc \in {"expand_ret", "auto_ret"}
           /\ Len(stack'[t]) = Len(stack[t])
           /\ stack'[t] # stack[t])
          => \A k \in Keys(Top(t).all) :
                 Get(stack'[t][Len(stack[t])].all, k) = Get(Top(t).all, k)]_vars

\* ------------------------------------------------------------------------
\* Properties of the composer
\* ------------------------------------------------------------------------

\* what an expression selects, without the names it refers to
Meaning(q) == [empty |-> q.empty, rows |-> IF q.empty THEN {} ELSE q.rows]

\* the conjunction and the disjunction of a sequence of meanings, and the
\* negation of one; a member without a predicate takes no part
Conj(ms) ==
    LET some == {i \in 1..Len(ms) : ~ms[i].empty}
    IN IF some = {} THEN Meaning(EmptyQ)
       ELSE [empty |-> FALSE, rows |-> {r \in Rows : \A i \in some : r \in ms[i].rows}]
Disj(ms) ==
    LET some == {i \in 1..Len(ms) : ~ms[i].empty}
    IN IF some = {} THEN Meaning(EmptyQ)
       ELSE [empty |-> FALSE, rows |-> {r \in Rows : \E i \in some : r \in ms[i].rows}]
Neg(m) == IF m.empty THEN m ELSE [empty |-> FALSE, rows |-> Rows \ m.rows]

\* the fragment of a leaf predicate: the rows its filter keeps for the value
Fragment(item) ==
    LET f == ComposerFilters[find_filter(ComposerFilters, item.name)]
        rows == Matching(f.field_name, item.value.v)
    IN IF IsEmptyValue(item.value) THEN Meaning(EmptyQ)
       ELSE [empty |-> FALSE, rows |-> IF f.exclude THEN Rows \ rows ELSE rows]

RECURSIVE Expected(_)
\* the expression of a level: leaves AND 'and' children AND (OR of the 'or'
\* children) AND NOT the 'not' child
Expected(fm) ==
    Conj(<< Conj([i \in 1..Len(fm.cleaned_data) |-> Fragment(fm.cleaned_data[i])]),
            Conj([i \in 1..Len(fm.and_forms) |-> Expected(fm.and_forms[i])]),
            Disj([i \in 1..Len(fm.or_forms) |-> Expected(fm.or_forms[i])]),
            IF fm.not_form = <<>> THEN Meaning(EmptyQ)
            ELSE Neg(Expected(fm.not_form[1])) >>)

\* C1: the expression the composer returns for a form is the conjunction of
\* its leaf fragments, of the expressions of its 'and' children, of the
\* disjunction of the expressions of its 'or' children and of the negation of
\* the expression of its 'not' child, each child by the same rule
C1_ComposerFold == result.set => Meaning(result.q) = Expected(form)

\* a form with leaves, an 'and' child, two 'or' children and a 'not' child
\* was composed to an expression that selects some rows and not others
C1_AllFolds ==
    /\ result.set
    /\ form.cleaned_data # <<>> /\ form.and_forms # <<>>
    /\ Len(form.or_forms) = 2 /\ form.not_form # <<>>
    /\ ~result.q.empty
    /\ result.q.rows # {} /\ result.q.rows # Rows

\* C2: every annotation the returned expression refers to is on the
\* returned queryset, also when a level has an annotating predicate and a
\* 'not' child
C2_AnnotationsPresent == result.set => result.q.refs \subseteq result.qs.annotations

\* ------------------------------------------------------------------------
\* Properties of the schema trees and the resolver
\* ------------------------------------------------------------------------

\* the filter of the registry that a data key selects: the one of that name,
\* or else the one find_filter returns
SelectedBy(filters, key) ==
    IF Has(filters, key) THEN CHOOSE i \in 1..Len(filters) : filters[i].name = key
    ELSE find_filter(filters, key)

\* C6: a value tree that follows the schema built from the registry down to
\* the leaf of a predicate is flattened into exactly one (data key, value)
\* pair; the key selects that predicate, by its registry name or through
\* find_filter, and the value is the value submitted.
C6_RoundTrip ==
    submitted.set =>
        /\ ~submitted.exc
        /\ Len(submitted.data) = 1
        /\ submitted.data[1].value.kind \in {"scalar", "Value"}
        /\ submitted.data[1].value.v = submitted.v
        /\ SelectedBy(baseFilters, submitted.data[1].name) = submitted.leaf

\* ------------------------------------------------------------------------
\* Properties of the tree form and of resolve_queryset
\* ------------------------------------------------------------------------

\* the submitted data of a form holds a value its field rejects
OwnLeafFailed(fm) ==
    \E i \in 1..Len(fm.data) :
       /\ Has(ComposerFilters, fm.data[i].name)
       /\ ~Accepts(fm.data[i].value)

RECURSIVE AnyLeafFailed(_)
\* a leaf of the form or of a form below it, at any depth, failed
AnyLeafFailed(fm) ==
    \/ OwnLeafFailed(fm)
    \/ \E i \in 1..Len(fm.and_forms) : AnyLeafFailed(fm.and_forms[i])
    \/ \E i \in 1..Len(fm.or_forms) : AnyLeafFailed(fm.or_forms[i])
    \/ \E i \in 1..Len(fm.not_form) : AnyLeafFailed(fm.not_form[i])

RECURSIVE Reports(_, _)
\* errs is the report of the form fm: its own field errors, under each
\* combinator key one entry <key>_<i> per failing child at index i, and a
\* not entry for a failing not subtree, each nested report built alike
Reports(errs, fm) ==
    LET ChildrenOf(key) == IF key = <<"and">> THEN fm.and_forms ELSE fm.or_forms
        IndexKeys(key) == {key \o <<"_">> \o str(i - 1) : i \in 1..Len(ChildrenOf(key))}
    IN /\ \A i \in 1..Len(errs) :
             errs[i].name \in Keys(ComposerFilters) \cup {<<"and">>, <<"or">>, <<"not">>}
       /\ \A i \in 1..Len(ComposerFilters) :
             LET n == ComposerFilters[i].name
             IN /\ Has(errs, n) <=> (Has(fm.data, n) /\ ~Accepts(Get(fm.data, n).value))
                /\ Has(errs, n) => Get(errs, n).kind = "field"
       /\ \A key \in {<<"and">>, <<"or">>} :
             /\ Has(errs, key) <=>
                   \E i \in 1..Len(ChildrenOf(key)) : AnyLeafFailed(ChildrenOf(key)[i])
             /\ Has(errs, key) =>
                   /\ Get(errs, key).kind = "dict"
                   /\ \A j \in 1..Len(Get(errs, key).sub) :
                         Get(errs, key).sub[j].name \in IndexKeys(key)
                   /\ \A i \in 1..Len(ChildrenOf(key)) :
                         LET k == key \o <<"_">> \o str(i - 1)
                             sub == Get(errs, key).sub
                         IN /\ Has(sub, k) <=> AnyLeafFailed(ChildrenOf(key)[i])
                            /\ Has(sub, k) =>
                                  /\ Get(sub, k).kind = "dict"
                                  /\ Reports(Get(sub, k).sub, ChildrenOf(key)[i])
       /\ Has(errs, <<"not">>) <=> (fm.not_form # <<>> /\ AnyLeafFailed(fm.not_form[1]))
       /\ Has(errs, <<"not">>) =>
             /\ Get(errs, <<"not">>).kind = "dict"
             /\ Reports(Get(errs, <<"not">>).sub, fm.not_form[1])

\* C11: the errors of a tree form are its own leaf errors, plus under each
\* of 'and' and 'or' one entry '<combinator>_<i>' for every child at index i
\* that has errors, plus a 'not' entry when the not subtree has errors,
\* recursively; the report is empty exactly when no leaf at any depth failed
C11_ErrorReport ==
    outcome.set /\ outcome.exc # <<"AttributeError">> =>
        /\ Reports(errors(outcome.bound), outcome.bound)
        /\ (errors(outcome.bound) = <<>>) <=> ~AnyLeafFailed(outcome.bound)

\* a report with an entry and_1 but none and_0, and an entry for the not
\* subtree
C11_NestedReport ==
    /\ outcome.set
    /\ Has(outcome.errors, <<"and">>)
    /\ Has(Get(outcome.errors, <<"and">>).sub, <<"and", "_", "1">>)
    /\ ~Has(Get(outcome.errors, <<"and">>).sub, <<"and", "_", "0">>)
    /\ Has(outcome.errors, <<"not">>)
    /\ Has(Get(outcome.errors, <<"not">>).sub, <<"a">>)

OnlyNot(fm) ==
    /\ \A i \in 1..Len(fm.cleaned_data) : IsEmptyValue(fm.cleaned_data[i].value)
    /\ fm.and_forms = <<>>
    /\ fm.or_forms = <<>>
    /\ fm.not_form # <<>>

\* the rows the expression of the subtree S selects
RowsOf(S) ==
    Selected(get_queryset_proxy_for_form(ComposerFilters, BaseQuerySet, S, NewCounters).q)

\* C13: a cleaned tree with nothing but a not subtree S at its own level is
\* composed to the negation of the expression of S, for every S, also one
\* whose expression is the identity: it selects the rows S does not select
C13_OnlyNotNegates ==
    result.set /\ OnlyNot(form) => Selected(result.q) = Rows \ RowsOf(form.not_form[1])

\* the same for the subtrees whose expression is not the identity
NegatesPredicates ==
    result.set /\ OnlyNot(form)
        /\ ~get_queryset_proxy_for_form(ComposerFilters, BaseQuerySet, form.not_form[1],
                                        NewCounters).q.empty
        => Selected(result.q) = Rows \ RowsOf(form.not_form[1])

\* the number of values of annotated filters, other than empty ones, among
\* the leaves of a level
OwnAnnotating(fm) ==
    Cardinality({i \in 1..Len(fm.cleaned_data) :
                    /\ ComposerFilters[find_filter(ComposerFilters,
                                                   fm.cleaned_data[i].name)].annotated
                    /\ ~IsEmptyValue(fm.cleaned_data[i].value)})

RECURSIVE Columns(_, _, _)
RECURSIVE FoldColumns(_, _)
\* the computed columns of the state a level hands back when it is entered
\* with the columns entry after n annotating evaluations: its leaves add to
\* entry, each 'and' and 'or' child starts from what the leaves and the
\* children before it left, and the not subtree starts from entry
Columns(fm, entry, n) ==
    LET own == OwnAnnotating(fm)
        leaves == [cols |-> entry \cup {<<SearchQueryPostfix, k>> : k \in n..(n + own - 1)},
                   n |-> n + own]
        ands == FoldColumns(fm.and_forms, leaves)
        ors == FoldColumns(fm.or_forms, ands)
    IN IF fm.not_form = <<>> THEN ors
       ELSE Columns(fm.not_form[1], entry, ors.n)
FoldColumns(children, st) ==
    IF children = <<>> THEN st
    ELSE FoldColumns(Tail(children), Columns(Head(children), st.cols, st.n))

\* the annotating evaluations of a whole tree
Annotating(fm) == Columns(fm, {}, 0).n

\* C14: the not subtree of a level starts from the state the level was
\* entered with, without the columns of the level's leaves and 'and'/'or'
\* children, while each 'and' and 'or' child starts from the running state
C14_NotFromEntryState ==
    result.set =>
        result.qs.annotations =
            Columns(form, {}, filterCounter[SearchQueryPostfix] - Annotating(form)).cols

\* a level whose leaf, 'and' child and not subtree each added a column hands
\* back the column of the not subtree alone
C14_ColumnsDropped ==
    /\ result.set
    /\ OwnAnnotating(form) = 1
    /\ form.and_forms # <<>> /\ OwnAnnotating(form.and_forms[1]) = 1
    /\ form.not_form # <<>> /\ OwnAnnotating(form.not_form[1]) = 1
    /\ Cardinality(result.qs.annotations) = 1

\* C15: in one evaluation of a tree the annotating evaluations use distinct
\* column names, also those of one filter in several branches: each reads
\* the counter and raises it by one; an empty value adds no column and
\* leaves the counter
C15_DistinctColumns ==
    outcome.set /\ outcome.exc = <<>> =>
        /\ filterCounter[SearchQueryPostfix] = Annotating(form)
        /\ result.q.refs = {<<SearchQueryPostfix, k>> : k \in 0..(Annotating(form) - 1)}
        /\ Cardinality(result.q.refs) = Annotating(form)

\* a request whose root, 'and' child, 'or' child and not subtree each
\* evaluate the annotated filter, next to levels where its value is empty
C15_FourBranches ==
    /\ outcome.set /\ outcome.exc = <<>>
    /\ OwnAnnotating(form) = 1
    /\ \E i \in 1..Len(form.and_forms) : OwnAnnotating(form.and_forms[i]) = 1
    /\ \E i \in 1..Len(form.or_forms) : OwnAnnotating(form.or_forms[i]) = 1
    /\ \E i \in 1..Len(form.or_forms) :
          /\ OwnAnnotating(form.or_forms[i]) = 0
          /\ Has(form.or_forms[i].cleaned_data, SearchQueryPostfix)
    /\ form.not_form # <<>> /\ OwnAnnotating(form.not_form[1]) = 1
    /\ filterCounter[SearchQueryPostfix] = 4

\* ------------------------------------------------------------------------
\* Properties of the trees and the input types of a class
\* ------------------------------------------------------------------------

RECURSIVE LeafPathsOf(_, _)
\* the paths, from the root of its tree, of the leaves at and below a node
LeafPathsOf(node, path) ==
    IF IsLeaf(node) THEN {Append(path, node.name)}
    ELSE UNION {LeafPathsOf(node.children[i], Append(path, node.name)) :
                   i \in 1..Len(node.children)}

RECURSIVE LeafCount(_)
RECURSIVE LeafTotal(_)
\* the number of leaves at and below a node, and of a sequence of nodes
LeafCount(node) == IF IsLeaf(node) THEN 1 ELSE LeafTotal(node.children)
LeafTotal(nodes) ==
    IF nodes = <<>> THEN 0 ELSE LeafCount(Head(nodes)) + LeafTotal(Tail(nodes))

\* the trees were built without error and their leaves are the predicates
\* of the registry, one leaf for each
LeavesArePredicates(base_filters) ==
    LET r == filterset_to_trees(base_filters)
    IN /\ ~r.exc
       /\ \A i \in 1..Len(base_filters) :
             PathOf(base_filters[i]) \in
                 UNION {LeafPathsOf(r.trees[k], <<>>) : k \in 1..Len(r.trees)}
       /\ LeafTotal(r.trees) = Len(base_filters)

\* C16: for every registry the trees of filterset_to_trees are built
\* without error and their leaves correspond one to one to the predicates,
\* each path ending at a leaf of its own, also when a path is a prefix of
\* another (in either order) or two predicates have the same path
C16_LeavesArePredicates == schema.set => LeavesArePredicates(baseFilters)

\* p is the beginning of q, or all of it
IsPrefix(p, q) == Len(p) <= Len(q) /\ SubSeq(q, 1, Len(p)) = p

\* the same for the registries in which no path is the beginning of another
PlainPathsBecomeLeaves ==
    schema.set
        /\ (\A i, j \in 1..Len(baseFilters) :
               i # j => ~IsPrefix(PathOf(baseFilters[i]), PathOf(baseFilters[j])))
        => LeavesArePredicates(baseFilters)

RECURSIVE BranchTypes(_)
\* the input object types at and below a type
BranchTypes(type) ==
    IF type.kind # "object" THEN {}
    ELSE {type} \cup UNION {BranchTypes(type.fields[i].type) : i \in 1..Len(type.fields)}

\* the type has the and, or and not fields, of its own type
HasCombinators(type) ==
    /\ Has(type.fields, AND_KEY) /\ Get(type.fields, AND_KEY).type = LazyList(type.type_name)
    /\ Has(type.fields, OR_KEY) /\ Get(type.fields, OR_KEY).type = LazyList(type.type_name)
    /\ Has(type.fields, NOT_KEY) /\ Get(type.fields, NOT_KEY).type = LazyType(type.type_name)

\* C17: every branch node of the input schema, the root input type and
\* every nested input object type, has the fields and and or as lists of
\* its own type and not as its own type
C17_BranchCombinators ==
    schema.set /\ ~schema.exc => \A type \in BranchTypes(schema.type) : HasCombinators(type)

\* the root input type has them
RootCombinators == schema.set /\ ~schema.exc => HasCombinators(schema.type)

\* C18: for one class and prefix the argument is built once: a request
\* after the first returns the root input type of the first and creates no
\* type; create_input_object_type returns the cached type of a cached name
C18_BuiltOnce ==
    schema.calls >= 2 /\ ~schema.first.exc =>
        /\ ~schema.exc
        /\ schema.type = schema.first.type
        /\ inputObjectTypes.created = schema.first.created

\* a later request makes one type, the root input type, and takes the
\* nested types from the cache
NestedTypesCached ==
    schema.calls >= 2 /\ ~schema.first.exc =>
        /\ ~schema.exc
        /\ inputObjectTypes.created = schema.first.created + (schema.calls - 1)
        /\ schema.type.fields = schema.first.type.fields

\* ------------------------------------------------------------------------
\* Properties of the resolver
\* ------------------------------------------------------------------------

RECURSIVE Unflattened(_, _)
\* data is the flat data of the level: under and and under or a list with
\* one flat map per child, in order; under not the flat map of the child;
\* beside them what the other entries of the level alone are flattened to
Unflattened(level, data) ==
    LET IsPlain(entry) == entry.name \notin {AND_KEY, OR_KEY, NOT_KEY}
    IN /\ \A key \in {AND_KEY, OR_KEY} :
             /\ Has(data, key) <=> Has(level.items, key)
             /\ Has(data, key) =>
                   LET children == Get(level.items, key).value.items
                       maps == Get(data, key).value
                   IN /\ maps.kind = "list"
                      /\ Len(maps.items) = Len(children)
                      /\ \A i \in 1..Len(children) :
                            /\ maps.items[i].kind = "tree"
                            /\ Unflattened(children[i], maps.items[i].items)
       /\ Has(data, NOT_KEY) <=> Has(level.items, NOT_KEY)
       /\ Has(data, NOT_KEY) =>
             /\ Get(data, NOT_KEY).value.kind = "tree"
             /\ Unflattened(Get(level.items, NOT_KEY).value, Get(data, NOT_KEY).value.items)
       /\ SelectSeq(data, IsPlain) =
             tree_input_type_to_data(Container(SelectSeq(level.items, IsPlain)), <<>>).data

\* C19: tree_input_type_to_data maps and and or each to a list with one
\* flat map per child, in the order of the children and not merged, and not
\* to the flat map of its child; the other entries of a level are flattened
\* into the map of the level, which holds no entry of a combinator child
C19_Unflattened ==
    outcome.set /\ outcome.exc # <<"AttributeError">> =>
        Unflattened(outcome.filter_arg,
                    tree_input_type_to_data(outcome.filter_arg, <<>>).data)

\* a request with leaves, three 'and' children, two 'or' children and a not
\* subtree
C19_AllCombinators ==
    /\ outcome.set
    /\ \E i \in 1..Len(outcome.filter_arg.items) : outcome.filter_arg.items[i].name = <<"b">>
    /\ Has(outcome.filter_arg.items, AND_KEY)
    /\ Len(Get(outcome.filter_arg.items, AND_KEY).value.items) = 3
    /\ Has(outcome.filter_arg.items, OR_KEY)
    /\ Has(outcome.filter_arg.items, NOT_KEY)
    /\ Len(outcome.bound.and_forms) = 3

\* the data key of a path: its names joined, without a last name that is
\* the default lookup
TrimmedKey(path) ==
    IF path[Len(path)] = <<DEFAULT_LOOKUP_EXPR>>
    THEN JoinNames(SubSeq(path, 1, Len(path) - 1))
    ELSE JoinNames(path)

\* C20: a plain value is bound to the key joined from the prefix and the
\* key with only a last default-lookup segment removed; the name of the
\* default lookup at the beginning of a longer segment, or in a segment
\* that is not the last, stays
C20_TrailingDefaultOnly ==
    submitted.set /\ ~submitted.exc
        /\ (\A i \in 1..Len(submitted.data) : submitted.data[i].value.kind = "scalar")
        => /\ Len(submitted.data) = 1
           /\ submitted.data[1].name = TrimmedKey(PathOf(baseFilters[submitted.leaf]))

\* the same for the paths without a segment that begins with the name of
\* the default lookup and goes on
TrimmedWithoutLongerSegment ==
    submitted.set /\ ~submitted.exc
        /\ (\A i \in 1..Len(submitted.data) : submitted.data[i].value.kind = "scalar")
        /\ ~Contains(baseFilters[submitted.leaf].field_name, <<"exact", "_m">>)
        => /\ Len(submitted.data) = 1
           /\ submitted.data[1].name = TrimmedKey(PathOf(baseFilters[submitted.leaf]))

\* ------------------------------------------------------------------------
\* Properties of the dispatch to the data factories
\* ------------------------------------------------------------------------

\* the final segment of the key is the identifier of a special kind
EndsInSpecialKind(key) ==
    \E i \in 1..Len(DATA_FACTORIES) : LastSegment(key) = DATA_FACTORIES[i]

RECURSIVE KeysAlong(_, _)
\* the joined keys create_data is called with on the way down a value tree,
\* up to the key that ends in the identifier of a special kind
KeysAlong(value, prefix) ==
    IF value.kind # "tree" \/ value.items = <<>> THEN {}
    ELSE LET key == DataKey(prefix, value.items[1].name)
         IN {key} \cup (IF EndsInSpecialKind(key) THEN {}
                        ELSE KeysAlong(value.items[1].value, key))

\* C21: create_data hands a value to the data factory of a special kind
\* exactly when the final segment of the joined key is the identifier of
\* that kind; a key that holds an identifier inside a field name or in a
\* segment that is not the last is resolved as a branch or a leaf
C21_FactoryOnFinalSegment ==
    submitted.set =>
        /\ \A key \in KeysAlong(submitted.tree, <<>>) :
              /\ FactoryHits(key) # {} <=> EndsInSpecialKind(key)
              /\ \A i \in FactoryHits(key) : LastSegment(key) = DATA_FACTORIES[i]
        /\ (\A key \in KeysAlong(submitted.tree, <<>>) : ~EndsInSpecialKind(key))
              => /\ ~submitted.exc
                 /\ \A i \in 1..Len(submitted.data) : submitted.data[i].value.kind = "scalar"

\* the same for the keys that hold no identifier of a special kind beside a
\* final segment
FactoryWithoutInnerIdentifier ==
    submitted.set
        /\ ~Contains(baseFilters[submitted.leaf].field_name, <<"trigram", "_score">>)
        => \A key \in KeysAlong(submitted.tree, <<>>) :
              FactoryHits(key) # {} <=> EndsInSpecialKind(key)

\* ------------------------------------------------------------------------
\* Properties of the combinator keys
\* ------------------------------------------------------------------------

\* the subtrees the filter argument holds under a key of the schema
Submitted(filter_arg, key) ==
    IF ~Has(filter_arg.items, key) THEN <<>>
    ELSE IF Get(filter_arg.items, key).value.kind = "list"
    THEN Get(filter_arg.items, key).value.items
    ELSE <<Get(filter_arg.items, key).value>>

\* C22: for every configured value of the AND, OR and NOT keys the schema
\* builder exposes the keys that the resolver, the form builder and the
\* error collection take for combinators: a subtree submitted under a
\* configured key is evaluated as that combinator, not as a leaf and not
\* dropped
C22_ConfiguredKeys ==
    outcome.set /\ outcome.exc # <<"AttributeError">> =>
        /\ Len(outcome.bound.and_forms) = Len(Submitted(outcome.filter_arg, AND_KEY))
        /\ Len(outcome.bound.or_forms) = Len(Submitted(outcome.filter_arg, OR_KEY))
        /\ \A i \in 1..Len(Submitted(outcome.filter_arg, NOT_KEY)) :
              Submitted(outcome.filter_arg, NOT_KEY)[i].items # <<>>
                  => outcome.bound.not_form # <<>>
        /\ \A i \in 1..Len(outcome.bound.data) :
              outcome.bound.data[i].name \in Keys(ComposerFilters)

\* the same under the default settings
DefaultKeys == userSettings = DEFAULT_SETTINGS => C22_ConfiguredKeys

\* ------------------------------------------------------------------------
\* C23: the synthesis of the full-text-search filters without PostgreSQL or
\* without the trigram extension
\* ------------------------------------------------------------------------

\* the entries of the registry the synthesis made for the kind
SpecialEntries(registry, kind) ==
    {i \in 1..Len(registry) :
        registry[i].src = "fts" /\ LastSegment(registry[i].field_name) = kind}

\* the three kinds of the synthesis
SpecialKinds == {<<"search_query">>, <<"search_rank">>, <<"trigram">>}

\* C23: a build that reaches the synthesis with at least one full-text-search
\* field, from a caller that does not turn warnings into errors, does not
\* raise; without PostgreSQL it returns no full-text predicate, with
\* PostgreSQL but without the trigram extension it returns the query and the
\* rank predicates and no trigram predicate; in both cases it warns once
C23_DegradesWithWarning ==
    [][\A t \in Threads :
          (/\ ~Idle(t)
           /\ Top(t).fn = "get_filters" /\ Top(t).pc = "fts_ret"
           /\ ret[t].kind = "fields" /\ Len(ret[t].val) > 0
           /\ ~Top(t).strict
           /\ ~hasTrigram
           /\ stack'[t] # stack[t])
          => LET registry == IF Depth(t) = 1 THEN done'[t].val ELSE ret'[t].val IN
             /\ ret'[t].kind # "exc"
             /\ Len(stack'[t]) = Len(stack[t]) - 1
             /\ Depth(t) = 1 => done'[t].status = "ok" /\ done'[t].warned = 1
             /\ SpecialEntries(registry, <<"trigram">>) = {}
             /\ IF isPostgresql
                THEN /\ SpecialEntries(registry, <<"search_query">>) # {}
                     /\ SpecialEntries(registry, <<"search_rank">>) # {}
                ELSE \A kind \in SpecialKinds : SpecialEntries(registry, kind) = {}]_vars

\* a full build on PostgreSQL without the trigram extension returned the query
\* and the rank predicates after one warning
C23_WarnedWithoutTrigram ==
    \E t \in Threads :
        /\ Built(t) /\ done[t].ran
        /\ isPostgresql /\ ~hasTrigram
        /\ done[t].warned = 1
        /\ SpecialEntries(done[t].val, <<"search_query">>) # {}
        /\ SpecialEntries(done[t].val, <<"trigram">>) = {}

\* a full build without PostgreSQL returned after one warning
WarnedWithoutPostgresql ==
    \E t \in Threads :
        /\ Built(t) /\ done[t].ran
        /\ ~isPostgresql
        /\ done[t].warned = 1

\* ------------------------------------------------------------------------
\* C24: the exception guard of expand_auto_filter
\* ------------------------------------------------------------------------

\* the generation of expand_auto_filter came back to the frame of t
AutoReturns(t) ==
    /\ ~Idle(t)
    /\ Top(t).fn = "get_filters" /\ Top(t).pc = "auto_ret"
    /\ ret[t].kind \in {"fields", "exc"}

\* the exception the generation ends with (<<>> when it ends with filters)
AutoFailure(t) ==
    IF ret[t].kind = "exc" THEN ret[t].val
    ELSE LET base == BaseGetFilters(ret[t].val, DeclaredFilters(Top(t).cls))
         IN IF base.raised THEN <<base.exc>> ELSE <<>>

\* the field the expanded filter names is not on the model
OntoMissingField(t) ==
    ~ModelHasField(cfgRelated[Top(t).cls][Top(t).i].field_name)

\* C24: expand_auto_filter suppresses only the failure of expanding onto a
\* field that is not on the model and then adds no filter, any other exception
\* leaves get_filters, and _meta and declared_filters are the original objects
\* when expand_auto_filter is left
C24_GuardOnlyMissingField ==
    [][\A t \in Threads :
          AutoReturns(t) /\ stack'[t] # stack[t]
          => /\ metaCur'[Top(t).cls] = cfgMeta[Top(t).cls]
             /\ ~declHidden'[Top(t).cls]
             /\ (AutoFailure(t) # <<>> /\ OntoMissingField(t))
                  => /\ ret'[t].kind # "exc"
                     /\ stack'[t][Len(stack'[t])].all = Top(t).all
             /\ (AutoFailure(t) # <<>> /\ ~OntoMissingField(t))
                  => ret'[t].kind = "exc"]_vars

\* the same for the failure on a missing field alone
GuardSkipsMissingField ==
    [][\A t \in Threads :
          AutoReturns(t) /\ stack'[t] # stack[t]
          => /\ metaCur'[Top(t).cls] = cfgMeta[Top(t).cls]
             /\ ~declHidden'[Top(t).cls]
             /\ (AutoFailure(t) # <<>> /\ OntoMissingField(t))
                  => /\ AutoFailure(t) = <<"TypeError">>
                     /\ ret'[t].kind # "exc"
                     /\ stack'[t][Len(stack'[t])].all = Top(t).all]_vars

\* a build returned after an expansion was given up for a lookup the field
\* does not have
LookupFailureSuppressed ==
    \E t \in Threads :
        /\ Built(t) /\ done[t].ran
        /\ cfgRelated[done[t].cls] # <<>>
        /\ cfgRelated[done[t].cls][1].kind = "auto"
        /\ ~FieldHasLookup(cfgRelated[done[t].cls][1].lookups[1])

\* ------------------------------------------------------------------------
\* C25: the calls on a QuerySetProxy
\* ------------------------------------------------------------------------

\* the accumulated expression of the proxy i
Accumulated(objects, pxs, i) == objects[pxs[i].q]

\* C25: filter(args) leaves q AND args and exclude(args) leaves q AND NOT args
\* as the accumulated expression of the proxy; the wrapped queryset and every
\* expression object that existed before the call, the one passed to the
\* constructor among them, are as they were; the proxy another
\* queryset-returning method returns accumulates the same expression
C25_ProxyAccumulates ==
    [][LET i == lastCall'.on
           q == Accumulated(qObjects, proxies, i)
       IN
       /\ \A r \in 1..Len(qObjects) : qObjects'[r] = qObjects[r]
       /\ \A k \in 1..Len(proxies) : proxies'[k].qs = proxies[k].qs
       /\ \A k \in 1..Len(proxies) :
             k # i => Accumulated(qObjects', proxies', k) = Accumulated(qObjects, proxies, k)
       /\ lastCall'.op = "filter" =>
             Accumulated(qObjects', proxies', i) = QAnd(q, qObjects'[lastCall'.arg])
       /\ lastCall'.op = "exclude" =>
             Accumulated(qObjects', proxies', i) = QAnd(q, QNot(qObjects'[lastCall'.arg]))
       /\ lastCall'.op = "other" =>
             /\ Len(proxies') = Len(proxies) + 1
             /\ Accumulated(qObjects', proxies', Len(proxies')) = q
             /\ Accumulated(qObjects', proxies', i) = q]_unitVars

\* a proxy made with an expression was filtered and excluded from, and so
\* was a proxy made from it by another method
C25_CalledOnBoth ==
    /\ Len(proxies) = 2
    /\ proxies[1].q # 1 /\ proxies[2].q # proxies[1].q
    /\ ~qObjects[1].empty
    /\ lastCall.op = "exclude" /\ lastCall.on = 2
    /\ Accumulated(qObjects, proxies, 2).rows # Accumulated(qObjects, proxies, 1).rows

\* ------------------------------------------------------------------------
\* C26: find_filter
\* ------------------------------------------------------------------------

\* the data key without a trailing default-lookup segment
WithoutDefaultLookup(data_key) ==
    IF EndsWith(data_key, <<LOOKUP_SEP, DEFAULT_LOOKUP_EXPR>>)
    THEN SubSeq(data_key, 1, Len(data_key) - 2)
    ELSE data_key

\* the field part and the lookup part of a data key
KeyParts(data_key) ==
    IF SepPositions(data_key) = {}
    THEN [field |-> data_key, lookup |-> <<DEFAULT_LOOKUP_EXPR>>]
    ELSE [field |-> SubSeq(data_key, 1, Len(data_key) - Len(LastSegment(data_key)) - 1),
          lookup |-> LastSegment(data_key)]

\* the entries of one field path and lookup expression
EntriesOf(filters, parts) ==
    {i \in 1..Len(filters) :
        filters[i].field_name = parts.field /\ filters[i].lookup_expr = parts.lookup}

\* C26: find_filter returns the entry named by the data key without a
\* trailing default-lookup segment when there is one, otherwise the first
\* entry in registry order of the key's field part and lookup part, otherwise
\* None
C26_FindFilter ==
    ffCall.set =>
        LET named == {i \in 1..Len(ffFilters) :
                         ffFilters[i].name = WithoutDefaultLookup(ffCall.key)}
            same == EntriesOf(ffFilters, KeyParts(ffCall.key))
        IN IF named # {} THEN ffCall.found \in named
           ELSE IF same # {}
           THEN ffCall.found \in same /\ \A j \in same : ffCall.found <= j
           ELSE ffCall.found = 0

\* a key with a trailing default lookup found the entry of the shorter name
\* although an entry of its field and lookup stands before it
C26_FoundByShorterName ==
    /\ ffCall.set
    /\ ffCall.key = Join(<<"a">>, <<"exact">>)
    /\ ffCall.found = 2
    /\ ffFilters[1].name = <<"fake_key">>

\* a key that names no entry found the first of two entries of its field and
\* lookup
FoundFirstOfTwo ==
    /\ ffCall.set
    /\ ffCall.key = <<"a">>
    /\ ffCall.found = 1
    /\ Len(ffFilters) = 3 /\ ffFilters[1].name = <<"fake_key">>
    /\ ~Has(ffFilters, <<"a">>)

\* ------------------------------------------------------------------------
\* C27: two threads in get_filters of one class
\* ------------------------------------------------------------------------

\* a get_filters frame of the class c is on the stack of the thread u
Inside(u, c) ==
    \E k \in 1..Len(stack[u]) : stack[u][k].fn = "get_filters" /\ stack[u][k].cls = c

\* the call on top of the stack of t is re-entrant: a get_filters frame of
\* its class lies below it
ReentrantCall(t) ==
    \E k \in 1..(Len(stack[t]) - 1) :
        stack[t][k].fn = "get_filters" /\ stack[t][k].cls = Top(t).cls

\* C27: a call that is not re-entrant finds the flag set, and so returns the
\* unexpanded filters, only while another thread is inside get_filters of the
\* class; with no other thread inside (a single thread) it never does
C27_FlagOfAnotherThread ==
    [][\A t \in Threads :
          (/\ ~Idle(t)
           /\ Top(t).fn = "get_filters" /\ Top(t).pc = "entry"
           /\ stack'[t] # stack[t]
           /\ stack'[t] # <<>>
           /\ stack'[t][Len(stack'[t])].reent)
          => \/ ReentrantCall(t)
             \/ \E u \in Threads \ {t} : Inside(u, Top(t).cls)]_vars

\* two threads called get_filters of one class from outside; one got the
\* unexpanded filters, the other the registry with the expanded filters
C27_UnexpandedBesideBuilt ==
    \E t \in Threads, u \in Threads :
        /\ t # u
        /\ done[t].status = "ok" /\ done[t].reent
        /\ Built(u) /\ done[u].cls = done[t].cls
        /\ Len(done[u].val) > Len(done[t].val)
        /\ \A k \in 1..Len(done[t].val) : done[t].val[k].src \in {"declared", "meta"}

\* ------------------------------------------------------------------------
\* C28: the lookups of a field
\* ------------------------------------------------------------------------

\* the transform class cls is registered on the field type ft
RegisteredOn(ft, cls) ==
    \E i \in 1..Len(lkGraph.fields[ft]) :
        lkGraph.fields[ft][i].transform /\ lkGraph.fields[ft][i].cls = cls

\* the field type a chain of transforms applied to a field of type ft ends in
TypeAfter(ft, path) == IF path = <<>> THEN ft ELSE lkGraph.output[path[Len(path)]]

\* the chains of at most n transforms that the registered lookups offer from
\* a field of type ft, no class applied twice in a row
TransformPaths(ft, n) ==
    {path \in UNION {[1..k -> Transforms] : k \in 0..n} :
        \A k \in 1..Len(path) :
            /\ RegisteredOn(TypeAfter(ft, SubSeq(path, 1, k - 1)), path[k])
            /\ k > 1 => path[k] # path[k - 1]}

\* the transform graph of the field has no cycle but that of a transform
\* whose output offers the same transform again: no chain is longer than the
\* number of transform classes
SelfLoopsOnly(ft) ==
    \A path \in TransformPaths(ft, Cardinality(Transforms) + 1) :
        Len(path) <= Cardinality(Transforms)

\* the names of the lookups of a field type that are no transforms
TerminalNames(ft) ==
    {lkGraph.fields[ft][i].name :
        i \in {j \in 1..Len(lkGraph.fields[ft]) : ~lkGraph.fields[ft][j].transform}}

\* the lookup expressions of the chains from a field of type ft
ReachableChains(ft) ==
    UNION {{JoinNames([k \in 1..Len(path) |-> LookupName(path[k])] \o <<name>>) :
               name \in TerminalNames(TypeAfter(ft, path))} :
           path \in TransformPaths(ft, Cardinality(Transforms))}

\* C28: the enumeration of the lookups of a field whose transform graph has
\* no cycle but self-loops ends, and it returns the chains of transforms, no
\* class twice in a row, each followed by one lookup that is no transform:
\* all of them that the registered lookups offer and nothing else
C28_LookupChains ==
    (lkResult.set /\ SelfLoopsOnly(lkResult.field)) =>
        /\ lkResult.status = "ok"
        /\ {lkResult.val[k] : k \in 1..Len(lkResult.val)} = ReachableChains(lkResult.field)

\* the enumeration ended for a field with a transform whose output offers
\* the same transform again and another transform after it
C28_SelfLoopCut ==
    /\ lkResult.set /\ lkResult.status = "ok"
    /\ RegisteredOn(lkResult.field, "Unaccent")
    /\ lkGraph.output["Unaccent"] = lkResult.field
    /\ \E k \in 1..Len(lkResult.val) :
          lkResult.val[k] = Join(<<"unaccent">>, Join(<<"length">>, <<"gt">>))

\* an enumeration that was started ends
LookupsEnd == (lkStack # <<>>) ~> lkResult.set

\* an enumeration ended at the recursion limit
HitRecursionLimit == lkResult.set /\ lkResult.status = "RecursionError"

\* ------------------------------------------------------------------------
\* C29: the 'or' group
\* ------------------------------------------------------------------------

\* the form is an 'or' group and nothing else
OrGroupOnly(fm) ==
    fm.cleaned_data = <<>> /\ fm.and_forms = <<>> /\ fm.not_form = <<>>

\* the rows the child selects when it is evaluated alone
RowsAlone(child) ==
    Selected(get_queryset_proxy_for_form(ComposerFilters, BaseQuerySet, child,
                                         filterCounter).q)

\* the child has no leaves and no subtrees
EmptyChild(child) == child = NoForm

\* C29: the rows an 'or' group selects are the union of the rows each child
\* selects alone, an empty child selecting every row; a group without
\* children selects every row
C29_OrIsUnion ==
    (result.set /\ OrGroupOnly(form)) =>
        Selected(result.q) =
            IF form.or_forms = <<>> THEN Rows
            ELSE UNION {RowsAlone(form.or_forms[k]) : k \in 1..Len(form.or_forms)}

\* the same for the groups without an empty child
OrOfConstrainingChildren ==
    (/\ result.set /\ OrGroupOnly(form)
     /\ \A k \in 1..Len(form.or_forms) : ~EmptyChild(form.or_forms[k]))
    => C29_OrIsUnion

\* an 'or' group with an empty child was evaluated
OrWithEmptyChild ==
    /\ result.set /\ OrGroupOnly(form)
    /\ \E k \in 1..Len(form.or_forms) : EmptyChild(form.or_forms[k])

\* ------------------------------------------------------------------------
\* C30: the names of the roots and of the children
\* ------------------------------------------------------------------------

\* no two nodes of the sequence have the same name
DistinctNames(nodes) ==
    \A i \in 1..Len(nodes), j \in 1..Len(nodes) : nodes[i].name = nodes[j].name => i = j

RECURSIVE DistinctBelow(_)
\* no node at or below the nodes of the sequence has two children of one
\* name, and neither has the sequence
DistinctBelow(nodes) ==
    /\ DistinctNames(nodes)
    /\ \A i \in 1..Len(nodes) : DistinctBelow(nodes[i].children)

RECURSIVE Grafted(_, _)
\* the path runs from one of the nodes downwards
Grafted(nodes, path) ==
    path = <<>> \/ \E i \in 1..Len(nodes) :
                      nodes[i].name = Head(path) /\ Grafted(nodes[i].children, Tail(path))

\* C30: after filterset_to_trees has processed the first k predicates of the
\* registry, for every k, no two roots and no two children of a node have the
\* same name, and the path of each of them runs from a root downwards
C30_DistinctNames ==
    schema.set =>
        \A k \in 0..Len(baseFilters) :
            LET r == filterset_to_trees(SubSeq(baseFilters, 1, k)) IN
            ~r.exc => /\ DistinctBelow(r.trees)
                      /\ \A i \in 1..k : Grafted(r.trees, PathOf(baseFilters[i]))

\* the trees were built for a registry with two predicates whose paths have
\* two nodes in common, and the second was grafted below them
C30_GraftedBelowShared ==
    /\ schema.set
    /\ ~filterset_to_trees(baseFilters).exc
    /\ \E i \in 1..Len(baseFilters), j \in 1..Len(baseFilters) :
          /\ i < j
          /\ Len(PathOf(baseFilters[i])) = 3
          /\ SubSeq(PathOf(baseFilters[j]), 1, 2) = SubSeq(PathOf(baseFilters[i]), 1, 2)
          /\ PathOf(baseFilters[j]) # PathOf(baseFilters[i])
          /\ \E t \in 1..Len(filterset_to_trees(baseFilters).trees) :
                LET root == filterset_to_trees(baseFilters).trees[t] IN
                /\ root.name = PathOf(baseFilters[i])[1]
                /\ Len(root.children) = 1
                /\ Len(root.children[1].children) >= 2

====
